---- MODULE Spec2Model ----
(***************************************************************************)
(* Model of the protocol core (McpProtocol) of serverless-mcp: the         *)
(* JSON-RPC dispatcher that correlates outbound requests with inbound      *)
(* responses and routes inbound requests and notifications to handlers.    *)
(*                                                                         *)
(* A JavaScript object is a TLA+ record whose DOMAIN is the set of keys    *)
(* the object has; a JSON value is a tagged record.  The transport is the  *)
(* StdioTransport: send serialises with JSON.stringify and may fail.       *)
(***************************************************************************)
EXTENDS Integers, Sequences, FiniteSets, TLC

(* ------------------------------ bounds --------------------------------- *)
MaxRequests == 2   \* sendRequest calls over the life of the core
MaxInFlight == 1   \* handleMessage invocations suspended in a handler at one time

(* --------------------------- JSON / JS values -------------------------- *)
Undefined == [t |-> "undefined"]
Null == [t |-> "null"]
Num(n) == [t |-> "number", v |-> n]
Str(s) == [t |-> "string", v |-> s]
Bool(b) == [t |-> "boolean", v |-> b]
Obj(tag) == [t |-> "object", v |-> tag]
Arr(seq) == [t |-> "array", v |-> seq]

IsString(v) == "t" \in DOMAIN v /\ v.t = "string"
IsNumber(v) == "t" \in DOMAIN v /\ v.t = "number"
\* A plain object: a record of keys, or an opaque object value.
IsObject(v) == "t" \notin DOMAIN v \/ v.t = "object"

\* JavaScript truthiness, as used by `if (this.data)`.
Truthy(v) ==
  IF "t" \notin DOMAIN v THEN TRUE
  ELSE CASE v.t = "undefined" -> FALSE
         [] v.t = "null" -> FALSE
         [] v.t = "number" -> v.v # 0
         [] v.t = "string" -> v.v # ""
         [] v.t = "boolean" -> v.v
         [] OTHER -> TRUE

\* obj with key k set to v (object spread / property assignment).
WithKey(obj, k, v) == [x \in DOMAIN obj \cup {k} |-> IF x = k THEN v ELSE obj[x]]

\* JSON.stringify followed by the peer's JSON.parse: keys whose value is
\* undefined are dropped, one level into nested plain objects.
StripUndefined(obj) ==
  [k \in {x \in DOMAIN obj : obj[x] # Undefined} |-> obj[k]]

Serialize(message) ==
  LET top == StripUndefined(message)
  IN [k \in DOMAIN top |->
        IF k = "error" /\ "t" \notin DOMAIN top[k] THEN StripUndefined(top[k]) ELSE top[k]]

(* ------------------------------- errors -------------------------------- *)
PARSE_ERROR == -32700
INVALID_REQUEST == -32600
METHOD_NOT_FOUND == -32601
INVALID_PARAMS == -32602
INTERNAL_ERROR == -32603
RESOURCE_NOT_FOUND == -32001
TOOL_EXECUTION_ERROR == -32002
PROMPT_NOT_FOUND == -32003
CAPABILITY_NOT_SUPPORTED == -32004

\* new McpError(code, message, data): data is Undefined when not supplied.
McpError(code, message, data) ==
  [cls |-> "McpError", code |-> code, message |-> message, data |-> data]

\* new Error(message)
PlainError(message) == [cls |-> "Error", message |-> message]

IsMcpError(e) == e.cls = "McpError"

toJsonRpcError(e) ==
  LET error == [code |-> Num(e.code), message |-> Str(e.message)]
  IN IF Truthy(e.data) THEN WithKey(error, "data", e.data) ELSE error

\* The failure thrown by Schema.parse / kept by safeParse.
ZodError == [cls |-> "ZodError", message |-> "invalid"]
ParseError(message, data) == McpError(PARSE_ERROR, message, data)
InvalidRequestError(message, data) == McpError(INVALID_REQUEST, message, data)

InvalidParamsError(message) == McpError(INVALID_PARAMS, message, Undefined)

\* new ResourceNotFoundError('No resource provider configured')
ResourceNotFoundError ==
  McpError(RESOURCE_NOT_FOUND, "Resource not found: No resource provider configured", Undefined)

\* new PromptNotFoundError('No prompt provider configured')
PromptNotFoundError ==
  McpError(PROMPT_NOT_FOUND, "Prompt not found: No prompt provider configured", Undefined)

\* new ToolExecutionError(toolName, message)
ToolExecutionError(toolName, message) ==
  McpError(TOOL_EXECUTION_ERROR,
           "Tool execution error in " \o toolName \o ": " \o message,
           Undefined)

\* What StdioTransport.send throws.
TransportError == PlainError("Transport is not connected")

(* ------------------------------ messages ------------------------------- *)
TWO == Str("2.0")
Methods == {"initialize", "initialized", "custom"}

Request(id, method, params) ==
  [jsonrpc |-> TWO, id |-> id, method |-> Str(method), params |-> params]
Notification(method, params) ==
  [jsonrpc |-> TWO, method |-> Str(method), params |-> params]
Response(id, result) == [jsonrpc |-> TWO, id |-> id, result |-> result]
ErrorResponse(id, error) == [jsonrpc |-> TWO, id |-> id, error |-> error]

\* z.object(...) keeps only the keys of the schema (unknown keys are stripped).
Strip(obj, keys) == [k \in DOMAIN obj \cap keys |-> obj[k]]

JsonRpcRequestSchemaOK(m) ==
  /\ "jsonrpc" \in DOMAIN m /\ m.jsonrpc = TWO
  /\ "id" \in DOMAIN m /\ (IsString(m.id) \/ IsNumber(m.id))
  /\ "method" \in DOMAIN m /\ IsString(m.method)

JsonRpcRequestSchema(m) == Strip(m, {"jsonrpc", "id", "method", "params"})

ErrorObjectOK(e) ==
  /\ "t" \notin DOMAIN e
  /\ "code" \in DOMAIN e /\ IsNumber(e.code)
  /\ "message" \in DOMAIN e /\ IsString(e.message)

JsonRpcResponseSchemaOK(m) ==
  /\ "jsonrpc" \in DOMAIN m /\ m.jsonrpc = TWO
  /\ "id" \in DOMAIN m /\ (IsString(m.id) \/ IsNumber(m.id) \/ m.id = Null)
  /\ ("error" \in DOMAIN m => ErrorObjectOK(m.error))

JsonRpcResponseSchema(m) ==
  LET top == Strip(m, {"jsonrpc", "id", "result", "error"})
  IN [k \in DOMAIN top |->
        IF k = "error" THEN Strip(top[k], {"code", "message", "data"}) ELSE top[k]]

JsonRpcNotificationSchemaOK(m) ==
  /\ "jsonrpc" \in DOMAIN m /\ m.jsonrpc = TWO
  /\ "method" \in DOMAIN m /\ IsString(m.method)

JsonRpcNotificationSchema(m) == Strip(m, {"jsonrpc", "method", "params"})

\* Mutant: a message that also has result or error is not taken as a Request.
isRequest_NoAnswerFields(m) ==
  /\ "id" \in DOMAIN m /\ "method" \in DOMAIN m
  /\ "result" \notin DOMAIN m /\ "error" \notin DOMAIN m

isRequest(m) == "id" \in DOMAIN m /\ "method" \in DOMAIN m
isResponse(m) == "id" \in DOMAIN m /\ ("result" \in DOMAIN m \/ "error" \in DOMAIN m)
isNotification(m) == "method" \in DOMAIN m /\ "id" \notin DOMAIN m

\* obj.key, or undefined when the object has no such key.
Get(obj, k) == IF k \in DOMAIN obj THEN obj[k] ELSE Undefined

(* ----------------------------- the core -------------------------------- *)
VARIABLES
  options,               \* McpServerOptions given to the constructor
  messageId,             \* McpProtocol.messageId
  pendingRequests,       \* Map: request id -> the future whose resolve/reject it holds
  requestHandlers,       \* Map: method -> request handler
  notificationHandlers,  \* Map: method -> notification handler
  connected,             \* the transport's connected flag
  futures,               \* the promises returned by sendRequest, in call order
  tasks,                 \* handleMessage invocations awaiting their handler, in arrival order
  providers,             \* McpServer: the providers that have been set
  handshake,             \* the handshake messages the peer has sent (the core keeps no record)
  transport,             \* one transport implementation: its fields, channel and callback
  cache,                 \* MemoryResourceCache.cache: Map uri -> CacheEntry
  defaultTtl,            \* MemoryResourceCache.defaultTtl
  now,                   \* Date.now()
  stored,                \* per uri, the arguments and time of the set still in force
  limiter,               \* one rate-limit middleware: its arguments and callCounts
  chain,                 \* one ToolMiddlewareChain: its middlewares and its last execution
  resources,             \* one McpResourceProvider: its registry and the reads in flight
  event                  \* the last operation: its input, what it wrote and logged

vars == <<options, messageId, pendingRequests, requestHandlers, notificationHandlers,
          connected, futures, tasks, providers, handshake, transport, cache, defaultTtl,
          now, stored, limiter, chain, resources, event>>

\* The state of the core and of the router.
core == <<options, messageId, pendingRequests, requestHandlers, notificationHandlers,
          connected, futures, tasks, providers, handshake>>

\* The state outside the core: the transport implementation and the resource cache.
\* The middlewares and providers built on the core.
library == <<limiter, chain, resources>>

periphery == <<transport, cache, defaultTtl, now, stored, library>>

\* A Map with no entry.
EmptyMap == [k \in {} |-> 0]
MapSet(map, k, v) == [x \in DOMAIN map \cup {k} |-> IF x = k THEN v ELSE map[x]]
MapDelete(map, k) == [x \in DOMAIN map \ {k} |-> map[x]]

\* Handlers the embedding application registers; their outcome is theirs.
UserHandlers == {"h1", "h2"}

OptionsSet ==
  { [name |-> Str("test-server"), version |-> Str("1.0.0")],
    [name |-> Str("srv"), version |-> Str("2.0.0"),
     capabilities |-> [tools |-> [listChanged |-> Bool(FALSE)],
                       experimental |-> Obj("{}")],
     instructions |-> Str("use me")] }

DefaultCapabilities ==
  [logging |-> Obj("{}"),
   prompts |-> [listChanged |-> Bool(TRUE)],
   resources |-> [subscribe |-> Bool(TRUE), listChanged |-> Bool(TRUE)],
   tools |-> [listChanged |-> Bool(TRUE)],
   roots |-> [listChanged |-> Bool(TRUE)]]

\* Mutant: the spread in the other order, the defaults written last.
Spread_DefaultsLast(a, b) ==
  [k \in DOMAIN a \cup DOMAIN b |-> IF k \in DOMAIN a THEN a[k] ELSE b[k]]

\* { ...a, ...b }
Spread(a, b) == [k \in DOMAIN a \cup DOMAIN b |-> IF k \in DOMAIN b THEN b[k] ELSE a[k]]

\* Mutant: the schema without its clientInfo entry.
InitializeParamsOK_NoClientInfo(params) ==
  /\ "t" \notin DOMAIN params
  /\ "protocolVersion" \in DOMAIN params /\ IsString(params.protocolVersion)
  /\ "capabilities" \in DOMAIN params /\ IsObject(params.capabilities)

InitializeParamsOK(params) ==
  /\ "t" \notin DOMAIN params
  /\ "protocolVersion" \in DOMAIN params /\ IsString(params.protocolVersion)
  /\ "capabilities" \in DOMAIN params /\ IsObject(params.capabilities)
  /\ "clientInfo" \in DOMAIN params
  /\ "t" \notin DOMAIN params.clientInfo
  /\ "name" \in DOMAIN params.clientInfo /\ IsString(params.clientInfo.name)
  /\ "version" \in DOMAIN params.clientInfo /\ IsString(params.clientInfo.version)

\* The outcome of a handler: it returns a value or throws.
Return(v) == [k |-> "return", v |-> v]
Throw(e) == [k |-> "throw", e |-> e]

\* Mutant: the result repeats the protocolVersion the client sent.
handleInitialize_Echo(opts, params) ==
  IF ~InitializeParamsOK(params)
  THEN Throw(InvalidRequestError("Invalid initialize params", ZodError))
  ELSE Return([protocolVersion |-> params.protocolVersion,
               capabilities |-> Spread(DefaultCapabilities,
                                       IF "capabilities" \in DOMAIN opts
                                       THEN opts.capabilities ELSE EmptyMap),
               serverInfo |-> [name |-> opts.name, version |-> opts.version]])

handleInitialize(opts, params) ==
  IF ~InitializeParamsOK(params)
  THEN Throw(InvalidRequestError("Invalid initialize params", ZodError))
  ELSE LET base == [protocolVersion |-> Str("2024-11-05"),
                    capabilities |-> Spread(DefaultCapabilities,
                                            IF "capabilities" \in DOMAIN opts
                                            THEN opts.capabilities ELSE EmptyMap),
                    serverInfo |-> [name |-> opts.name, version |-> opts.version]]
       IN Return(IF "instructions" \in DOMAIN opts /\ Truthy(opts.instructions)
                 THEN WithKey(base, "instructions", opts.instructions)
                 ELSE base)

(* --------------------------- outbound envelopes ------------------------ *)
\* The envelope sendResponse hands to transport.send.
sendResponse(id, result) == Response(id, result)

\* The envelope sendErrorResponse hands to transport.send (id ?? null).
sendErrorResponse(id, error) ==
  ErrorResponse(IF id = Undefined \/ id = Null THEN Null ELSE id, toJsonRpcError(error))

\* handleRequest's catch: a typed error is forwarded, anything else is wrapped.
WrapError(error) ==
  IF IsMcpError(error) THEN error
  ELSE McpError(INTERNAL_ERROR, "Internal error", Str(error.message))

MethodNotFoundMessage(method) ==
  CASE method = "initialize" -> "Method not found: initialize"
    [] method = "initialized" -> "Method not found: initialized"
    [] OTHER -> "Method not found: custom"

\* A slip in the code: the wrong constant of the taxonomy.
MethodNotFoundError_InvalidRequest(method) ==
  McpError(INVALID_REQUEST, MethodNotFoundMessage(method), Undefined)

\* new McpError(-32601, `Method not found: ${request.method}`)
MethodNotFoundError(method) ==
  McpError(METHOD_NOT_FOUND, MethodNotFoundMessage(method), Undefined)

\* The envelope handleMessageError sends for `error` thrown while processing `message`.
handleMessageError(message, error) ==
  IF error.cls = "ZodError"
  THEN sendErrorResponse(Null, ParseError("Invalid JSON-RPC message", error))
  ELSE sendErrorResponse(IF "id" \in DOMAIN message THEN message.id ELSE Null,
                         WrapError(error))

(* ------------------------------ transport ------------------------------ *)
\* transport.send is tried on the envelopes of `attempts` in order until one is
\* written; `failures` is the number of sends that throw first.  Each entry records
\* what reached the channel (JSON.stringify) and whether the write was accepted.
Tries(attempts, failures) ==
  [i \in 1..(IF failures < Len(attempts) THEN failures + 1 ELSE Len(attempts)) |->
     [message |-> Serialize(attempts[i]), ok |-> (i = failures + 1)]]

Written(tries) ==
  IF Len(tries) > 0 /\ tries[Len(tries)].ok THEN <<tries[Len(tries)].message>> ELSE <<>>

\* A closed transport refuses every send; an open one may refuse any (size, I/O).
Failures(attempts) == IF connected THEN 0..Len(attempts) ELSE {Len(attempts)}


(* ------------------------------ futures -------------------------------- *)
\* The promise sendRequest returns for the request it numbered `id`.
Pending(id) == [state |-> "pending", id |-> id]
\* A promise settles once: later resolve/reject calls do nothing.
Resolve(future, value) ==
  IF future.state = "pending"
  THEN [state |-> "resolved", id |-> future.id, value |-> value] ELSE future
Reject(future, reason) ==
  IF future.state = "pending"
  THEN [state |-> "rejected", id |-> future.id, reason |-> reason] ELSE future

(* --------------------------- handler outcomes -------------------------- *)
ReturnValues == {Undefined, Null, Obj("r")}
DataValues == {Undefined, Num(0), Str(""), Obj("d")}
ThrownErrors ==
  {McpError(INVALID_PARAMS, "bad params", d) : d \in DataValues} \cup
  {PlainError("boom"), PlainError("")}

NoOutcome == [k |-> "none"]

(* ------------------------- McpServer: the router ----------------------- *)
Providers == {"resource", "tool", "prompt", "root", "logging", "sampling"}

\* The handlers McpServer.setupHandlers registers, by method.
RouterHandlers ==
  [m \in {"resources/list", "resources/read", "resources/subscribe",
           "resources/unsubscribe", "tools/list", "tools/call", "prompts/list",
           "prompts/get", "roots/list", "logging/setLevel", "sampling/createMessage"} |->
     CASE m = "resources/list" -> "handleListResources"
       [] m = "resources/read" -> "handleReadResource"
       [] m = "resources/subscribe" -> "handleSubscribeResource"
       [] m = "resources/unsubscribe" -> "handleUnsubscribeResource"
       [] m = "tools/list" -> "handleListTools"
       [] m = "tools/call" -> "handleCallTool"
       [] m = "prompts/list" -> "handleListPrompts"
       [] m = "prompts/get" -> "handleGetPrompt"
       [] m = "roots/list" -> "handleListRoots"
       [] m = "logging/setLevel" -> "handleSetLogLevel"
       [] OTHER -> "handleCreateMessage"]

RouterHandlerNames == {RouterHandlers[m] : m \in DOMAIN RouterHandlers}

\* !(!params || typeof params !== 'object' || !(key in params))
HasKey(params, key) == "t" \notin DOMAIN params /\ key \in DOMAIN params

\* What a provider's list call and the tool provider's callTool can return.
ListResults == {Arr(<<>>), Arr(<<Obj("x")>>)}
ToolResults == {Str("hi"), Str(""), Obj("o")}

\* A provider call that fails.
ProviderFailure == PlainError("boom")

\* Mutant: the tool's result is always passed through JSON.stringify.
ResultText_Stringified(result) ==
  IF result = Str("hi") THEN Str("\"hi\"")
  ELSE IF result = Str("") THEN Str("\"\"")
  ELSE Str("{ \"v\": \"o\" }")

\* typeof result === 'string' ? result : JSON.stringify(result, null, 2)
ResultText(result) == IF IsString(result) THEN result ELSE Str("{ \"v\": \"o\" }")

\* A list handler: an empty list without provider, else what the provider lists.
ListOutcomes(provider, key) ==
  IF provider \notin providers
  THEN {Return([k \in {key} |-> Arr(<<>>)])}
  ELSE {Return([k \in {key} |-> l]) : l \in ListResults} \cup {Throw(ProviderFailure)}

\* A handler that returns nothing once its provider call has succeeded.
VoidOutcomes(params, key) ==
  IF ~HasKey(params, key)
  THEN {Throw(InvalidParamsError("Missing required parameter"))}
  ELSE {Return(Undefined), Throw(ProviderFailure)}

\* What toolProvider.callTool can reject with: an Error, a typed InvalidParams
\* failure of argument validation, a typed ToolExecutionError, a thrown string.
CallToolFailures ==
  {PlainError("boom"),
   InvalidParamsError("Invalid tool arguments: message is required"),
   ToolExecutionError("echo", "Tool not found"),
   Str("boom")}

\* error instanceof Error ? error.message : String(error)
ErrorText(error) == IF "cls" \in DOMAIN error THEN error.message ELSE error.v

\* Mutant: a typed failure of the provider is passed on as it is.
callToolCatch_Typed(name, error) ==
  IF "cls" \in DOMAIN error /\ IsMcpError(error)
  THEN error
  ELSE ToolExecutionError(name, ErrorText(error))

\* handleCallTool: catch (error) { throw new ToolExecutionError(name, ...) }
callToolCatch(name, error) == ToolExecutionError(name, ErrorText(error))

handleCallTool(params) ==
  IF "tool" \notin providers
  THEN {Throw(ToolExecutionError("unknown", "No tool provider configured"))}
  ELSE IF ~HasKey(params, "name")
  THEN {Throw(InvalidParamsError("Missing required parameter"))}
  ELSE {[k |-> "return", provided |-> r,
         v |-> [content |-> Arr(<<[type |-> Str("text"), text |-> ResultText(r)]>>)]] :
          r \in ToolResults}
       \cup {[k |-> "throw", failure |-> e, e |-> callToolCatch(params.name.v, e)] :
               e \in CallToolFailures}

\* What each handler of the router can produce for `params`.
ServerOutcomes(handler, params) ==
  CASE handler = "handleListResources" -> ListOutcomes("resource", "resources")
    [] handler = "handleListTools" -> ListOutcomes("tool", "tools")
    [] handler = "handleListPrompts" -> ListOutcomes("prompt", "prompts")
    [] handler = "handleListRoots" -> ListOutcomes("root", "roots")
    [] handler = "handleReadResource" ->
         IF "resource" \notin providers THEN {Throw(ResourceNotFoundError)}
         ELSE IF ~HasKey(params, "uri")
         THEN {Throw(InvalidParamsError("Missing required parameter"))}
         ELSE {Return([contents |-> Arr(<<Obj("c")>>)]), Throw(ProviderFailure)}
    [] handler \in {"handleSubscribeResource", "handleUnsubscribeResource"} ->
         IF "resource" \notin providers
         THEN {Throw(InvalidParamsError("Resource subscription not supported"))}
         ELSE {Throw(InvalidParamsError("Resource subscription not supported"))}
              \cup VoidOutcomes(params, "uri")
    [] handler = "handleCallTool" -> handleCallTool(params)
    [] handler = "handleGetPrompt" ->
         IF "prompt" \notin providers THEN {Throw(PromptNotFoundError)}
         ELSE IF ~HasKey(params, "name")
         THEN {Throw(InvalidParamsError("Missing required parameter"))}
         ELSE {Return([messages |-> Arr(<<Obj("m")>>)]), Throw(ProviderFailure)}
    [] handler = "handleSetLogLevel" ->
         IF "logging" \notin providers
         THEN {Throw(InvalidParamsError("Logging not supported"))}
         ELSE VoidOutcomes(params, "level")
    [] OTHER ->
         IF "sampling" \notin providers
         THEN {Throw(InvalidParamsError("Sampling not supported"))}
         ELSE IF ~HasKey(params, "messages")
         THEN {Throw(InvalidParamsError("Missing required parameter"))}
         ELSE {Return([role |-> Str("assistant"), content |-> Obj("c")]),
               Throw(ProviderFailure)}

\* What `await handler(request.params, request.id)` can produce.
HandlerOutcomes(handler, request) ==
  IF handler = "handleInitialize"
  THEN {handleInitialize(options, Get(request, "params"))}
  ELSE IF handler \in RouterHandlerNames
  THEN ServerOutcomes(handler, Get(request, "params"))
  ELSE {Return(v) : v \in ReturnValues} \cup {Throw(e) : e \in ThrownErrors}

\* What `await handler(notification.params)` can produce.
NotificationOutcomes(handler) ==
  IF handler = "initializedAck" THEN {Return(Undefined)}
  ELSE {Return(Undefined), Throw(PlainError("boom"))}

(* --------------------------- inbound messages -------------------------- *)
ValidInitializeParams ==
  [protocolVersion |-> Str("2024-11-05"), capabilities |-> Obj("{}"),
   clientInfo |-> [name |-> Str("c"), version |-> Str("1")]]

\* initialize params that lack a required field.
InvalidInitializeParams ==
  { [capabilities |-> Obj("{}"), clientInfo |-> [name |-> Str("c"), version |-> Str("1")]],
    [protocolVersion |-> Str("2024-11-05"),
     clientInfo |-> [name |-> Str("c"), version |-> Str("1")]],
    [protocolVersion |-> Str("2024-11-05"), capabilities |-> Obj("{}")],
    [protocolVersion |-> Str("2024-11-05"), capabilities |-> Obj("{}"),
     clientInfo |-> [version |-> Str("1")]],
    [protocolVersion |-> Str("2024-11-05"), capabilities |-> Obj("{}"),
     clientInfo |-> [name |-> Str("c")]] }

PeerRequestIds == {Num(1), Str("a")}
OwnIds == {Num(i) : i \in 1..MaxRequests}
ErrorObjects ==
  {[code |-> Num(INVALID_PARAMS), message |-> Str("bad params")]} \cup
  {[code |-> Num(INVALID_PARAMS), message |-> Str("bad params"), data |-> d] :
     d \in {Num(0), Obj("d")}}

InboundRequests ==
  {Request(i, "custom", Obj("p")) : i \in PeerRequestIds} \cup
  {Request(Num(1), "initialize", p) : p \in {ValidInitializeParams, Obj("p")}} \cup
  {[jsonrpc |-> TWO, id |-> Num(1), method |-> Str("initialized")]}

InboundNotifications == {Notification(m, Obj("p")) : m \in {"initialized", "custom"}}

InboundResponses ==
  {Response(i, r) : i \in OwnIds, r \in {Null, Obj("r")}} \cup
  {ErrorResponse(i, e) : i \in OwnIds, e \in ErrorObjects} \cup
  {Response(Null, Obj("r")), Response(Str("a"), Obj("r")),
   [jsonrpc |-> TWO, id |-> Num(1), result |-> Obj("r"),
    error |-> [code |-> Num(INVALID_PARAMS), message |-> Str("bad params")]]}

\* Envelopes that fail classification or their schema.
InboundMalformed ==
  { [jsonrpc |-> Str("1.0"), id |-> Num(1), method |-> Str("custom")],
    [jsonrpc |-> TWO, id |-> Null, method |-> Str("custom")],
    [jsonrpc |-> Str("1.0"), id |-> Num(1), result |-> Obj("r")],
    [jsonrpc |-> TWO, id |-> Num(1), error |-> Str("oops")],
    [jsonrpc |-> Str("1.0"), method |-> Str("custom")],
    [jsonrpc |-> TWO],
    [jsonrpc |-> TWO, id |-> Num(1)] }

\* A well-typed envelope that has exactly the fields `fields` besides jsonrpc.
FieldCombo(fields, method) ==
  [k \in fields \cup {"jsonrpc"} |->
     CASE k = "jsonrpc" -> TWO
       [] k = "id" -> Num(1)
       [] k = "method" -> Str(method)
       [] k = "result" -> Obj("r")
       [] OTHER -> [code |-> Num(INVALID_PARAMS), message |-> Str("bad params")]]

\* Every combination of presence of id, method, result and error.
ClassifyMessages ==
  {FieldCombo(fields, method) :
     fields \in SUBSET {"id", "method", "result", "error"},
     method \in {"initialize", "initialized"}}

\* The peer's side of the handshake, and a request for an application method.
HandshakeMessages ==
  {Request(Num(1), "initialize", p) : p \in {ValidInitializeParams} \cup InvalidInitializeParams}
  \cup {[jsonrpc |-> TWO, id |-> Str("a"), method |-> Str("initialize")],
         Notification("initialized", Undefined),
         Request(Num(1), "custom", Obj("p"))}

\* Traffic in both directions: requests from the peer and answers to the core's own.
ConcurrentMessages ==
  {Request(Num(1), "initialize", ValidInitializeParams),
   Request(Num(1), "custom", Obj("p")), Request(Str("a"), "custom", Obj("p")),
   Response(Num(1), Obj("r")),
   ErrorResponse(Num(1), [code |-> Num(INVALID_PARAMS), message |-> Str("bad params")])}

\* The params a well-formed request for `method` carries.
ParamsFor(method) ==
  CASE method \in {"resources/read", "resources/subscribe", "resources/unsubscribe"} ->
         [uri |-> Str("file:///a")]
    [] method \in {"tools/call", "prompts/get"} ->
         [name |-> Str("echo"), arguments |-> [message |-> Str("hi")]]
    [] method = "logging/setLevel" -> [level |-> Str("info")]
    [] method = "sampling/createMessage" -> [messages |-> Arr(<<>>)]
    [] OTHER -> Undefined

\* One request for each method of the router, and a tools/call without a name.
ServerMessages ==
  {Request(Num(1), m, ParamsFor(m)) : m \in DOMAIN RouterHandlers} \cup
  {Request(Str("a"), "tools/call", ParamsFor("tools/call")),
   Request(Num(1), "tools/call", Obj("p"))}

InboundMessages ==
  InboundRequests \cup InboundNotifications \cup InboundResponses \cup InboundMalformed

(* -------------------------- tasks and events --------------------------- *)
\* A handleMessage invocation suspended in `await handler(...)`.
Task(message, kind, handler) == [msg |-> message, kind |-> kind, handler |-> handler]

\* The record of one operation: `op` on input `msg`; `tries` are the transport sends
\* it made, `logged` what it wrote to console.error, `pc` where its promise stands
\* ("handler": suspended, "done": resolved, "rejected"); pending/futuresBefore are the
\* pending table and the futures as the operation found them.
Event(op, message, kind, valid, handler, outcome, pc, tries, logged) ==
  [op |-> op, msg |-> message, kind |-> kind, valid |-> valid, handler |-> handler,
   outcome |-> outcome, pc |-> pc, tries |-> tries, logged |-> logged,
   pendingBefore |-> pendingRequests, futuresBefore |-> futures]

\* Where an operation's promise stands after trying `attempts` with `failures`
\* failed sends: it rejects when the last send throws.
Settled(attempts, failures) ==
  IF failures < Len(attempts) \/ Len(attempts) = 0 THEN "done" ELSE "rejected"

(* --------------------------- the transports ---------------------------- *)
\* The maxMessageSize option of the transport, in characters.
MaxMessageSize == 2
\* The metrics counters are followed up to this value.
MaxTraffic == 2
\* The number of event-stream clients the HTTP transport serves at once.
MaxConnections == 1

TransportKinds == {"stdio", "http", "lambda"}

\* HttpStreamingTransport.handlePostRequest: no POST is being read.
NoRequest == [open |-> FALSE, body |-> 0, status |-> 0]

\* The fields of a transport as its class body and constructor leave them.
\* A message is known by the length of its text; `written` holds the message
\* frames put on the channel, `delivered` the messages given to the callback.
\* The StdioTransport constructor connects; the other two start unconnected.
NewTransport(kind) ==
  [kind |-> kind,
   connected |-> (kind = "stdio"),
   messageHandler |-> FALSE,
   request |-> NoRequest,
   connections |-> 0,
   messagesSent |-> 0,
   messagesReceived |-> 0,
   errors |-> 0,
   written |-> <<>>,
   delivered |-> <<>>,
   uncaught |-> FALSE]

\* line.length > this.maxMessageSize, body.length > this.options.maxMessageSize
InboundTooLarge(length) == length > MaxMessageSize

OutboundTooLarge_Inclusive(length) == length >= MaxMessageSize

\* serialized.length > this.maxMessageSize
OutboundTooLarge(length) == length > MaxMessageSize

\* What a client puts on the wire: a text of some length that parses or not.
\* The empty text is no JSON.
Bodies == {b \in [size : 0..(MaxMessageSize + 1), valid : BOOLEAN] : b.valid => b.size > 0}

\* if (this.messageHandler) { this.messageHandler(message); }
Deliver(t, size) ==
  [t EXCEPT !.messagesReceived = @ + 1,
            !.delivered = IF t.messageHandler THEN Append(@, size) ELSE @]

\* `count` copies of `size` appended to `seq`.
RECURSIVE Repeat(_, _, _)
Repeat(seq, size, count) ==
  IF count = 0 THEN seq ELSE Repeat(Append(seq, size), size, count - 1)

(* ------------------------- the resource cache -------------------------- *)
\* Time-to-live values, in clock ticks, and the last tick of the clock.
MaxTtl == 2
MaxTime == 3

Uris == {"memory://u1"}
Contents == {"c1", "c2"}
\* The ttl argument of set: absent, or a number.
NoTtl == Undefined
TtlArguments == {NoTtl} \cup {Num(n) : n \in (-1)..MaxTtl}

\* entry.expires && Date.now() > entry.expires
Expired_AtDeadline(entry, time) ==
  "expires" \in DOMAIN entry /\ entry.expires # 0 /\ time >= entry.expires

Expired(entry, time) ==
  "expires" \in DOMAIN entry /\ entry.expires # 0 /\ time > entry.expires

\* The CacheEntry built by set(uri, contents, ttl) at `time`.
CacheEntry(contents, ttl, default, time) ==
  IF ttl # NoTtl /\ ttl.v > 0
  THEN [contents |-> contents, expires |-> time + ttl.v]
  ELSE IF default > 0
  THEN [contents |-> contents, expires |-> time + default]
  ELSE [contents |-> contents]

(* ------------------------- the rate limiter ---------------------------- *)
\* The largest maxCalls and windowMs given to createRateLimitMiddleware.
MaxRate == 2
MaxWindow == 2

ToolNames == {"t1", "t2"}

\* createRateLimitMiddleware(maxCalls, windowMs): callCounts = new Map().
\* `calls` is the history of the middleware's invocations: the tool, the time
\* and whether next was invoked.
NewLimiter(maxCalls, windowMs) ==
  [maxCalls |-> maxCalls, windowMs |-> windowMs, callCounts |-> EmptyMap, calls |-> <<>>]

(* ------------------------ the middleware chain ------------------------- *)
\* new ToolMiddlewareChain(): middlewares = []. `trace` and `outcome` are
\* those of the last execute.
NewChain == [middlewares |-> <<>>, trace |-> <<>>, outcome |-> "none"]

\* The longest chain followed.
MaxMiddlewares == 3

\* What a middleware does with next: "around" runs a part before `await next()`
\* and a part after it and returns next's result (a failure of next passes
\* through it); "before" runs its part and returns next(); "throws" fails
\* without calling next.
MiddlewareKinds == {"around", "before", "throws"}

\* What finalHandler does.
FinalHandlers == {"return", "throw"}

\* ToolMiddlewareChain.execute: next() with the shared index at `index - 1`;
\* the parts run, in order, and how the call ends.
RECURSIVE next_Continue(_, _, _)
next_Continue(middlewares, index, finalHandler) ==
  IF index > Len(middlewares)
  THEN [trace |-> <<[part |-> "handler", index |-> 0]>>, outcome |-> [k |-> finalHandler]]
  ELSE LET inner == next_Continue(middlewares, index + 1, finalHandler)
           pre == <<[part |-> "pre", index |-> index]>>
       IN  IF middlewares[index] = "around" /\ inner.outcome.k = "return"
           THEN [trace |-> pre \o inner.trace \o <<[part |-> "post", index |-> index]>>,
                 outcome |-> inner.outcome]
           ELSE [trace |-> pre \o inner.trace, outcome |-> inner.outcome]

RECURSIVE next(_, _, _)
next(middlewares, index, finalHandler) ==
  IF index > Len(middlewares)
  THEN [trace |-> <<[part |-> "handler", index |-> 0]>>, outcome |-> [k |-> finalHandler]]
  ELSE LET inner == next(middlewares, index + 1, finalHandler)
           pre == <<[part |-> "pre", index |-> index]>>
       IN  IF middlewares[index] = "throws"
           THEN [trace |-> pre, outcome |-> [k |-> "throw", by |-> index]]
           ELSE IF middlewares[index] = "around" /\ inner.outcome.k = "return"
           THEN [trace |-> pre \o inner.trace \o <<[part |-> "post", index |-> index]>>,
                 outcome |-> inner.outcome]
           ELSE [trace |-> pre \o inner.trace, outcome |-> inner.outcome]

(* ------------------------ the resource provider ------------------------ *)
\* new McpResourceProvider(registry, cache): an empty registry; `reads` are the
\* readResource calls awaiting resource.handler().
NewResources == [registry |-> {}, reads |-> <<>>]

\* The rate limiter, the chain and the resource provider after construction.
LibraryAsConstructed ==
  /\ limiter = NewLimiter(MaxRate, MaxWindow)
  /\ chain = NewChain
  /\ resources = NewResources

\* The periphery after construction: a StdioTransport, and a MemoryResourceCache
\* with the constructor's default TTL (five minutes, here MaxTtl ticks).
PeripheryAsConstructed ==
  /\ transport = NewTransport("stdio")
  /\ cache = EmptyMap
  /\ defaultTtl = MaxTtl
  /\ now = 0
  /\ stored = EmptyMap
  /\ LibraryAsConstructed

(* ------------------------------- Init ---------------------------------- *)
\* The state after `new McpProtocol(transport, options)`: setupCoreHandlers has run.
Init ==
  /\ options \in OptionsSet
  /\ messageId = 0
  /\ pendingRequests = EmptyMap
  /\ requestHandlers = [m \in {"initialize"} |-> "handleInitialize"]
  /\ notificationHandlers = [m \in {"initialized"} |-> "initializedAck"]
  /\ connected = TRUE
  /\ futures = <<>>
  /\ tasks = <<>>
  /\ providers = {}
  /\ handshake = {}
  /\ PeripheryAsConstructed
  /\ event = [op |-> "construct", msg |-> EmptyMap, kind |-> "none", valid |-> TRUE,
              handler |-> "none", outcome |-> NoOutcome, pc |-> "done", tries |-> <<>>,
              logged |-> <<>>, pendingBefore |-> EmptyMap, futuresBefore |-> <<>>]

\* The state after `new McpServer(transport, options)`: the core as constructed,
\* then setupHandlers; no provider is set.
InitServer ==
  /\ options = [name |-> Str("test-server"), version |-> Str("1.0.0")]
  /\ messageId = 0
  /\ pendingRequests = EmptyMap
  /\ requestHandlers =
       [m \in {"initialize"} \cup DOMAIN RouterHandlers |->
          IF m = "initialize" THEN "handleInitialize" ELSE RouterHandlers[m]]
  /\ notificationHandlers = [m \in {"initialized"} |-> "initializedAck"]
  /\ connected = TRUE
  /\ futures = <<>>
  /\ tasks = <<>>
  /\ providers = {}
  /\ handshake = {}
  /\ PeripheryAsConstructed
  /\ event = [op |-> "construct", msg |-> EmptyMap, kind |-> "none", valid |-> TRUE,
              handler |-> "none", outcome |-> NoOutcome, pc |-> "done", tries |-> <<>>,
              logged |-> <<>>, pendingBefore |-> EmptyMap, futuresBefore |-> <<>>]

(* ------------------------- inbound: handleMessage ---------------------- *)
\* The operation ends in this step after trying `attempts` on the transport.
Complete(op, message, kind, valid, handler, outcome, attempts) ==
  \E failures \in Failures(attempts) :
    event' = Event(op, message, kind, valid, handler, outcome,
                   Settled(attempts, failures), Tries(attempts, failures), <<>>)

\* A handleMessage invocation suspends in its handler.
Suspend(message, kind, handler) ==
  /\ Len(tasks) < MaxInFlight
  /\ tasks' = Append(tasks, Task(message, kind, handler))
  /\ event' = Event("handleMessage", message, kind, TRUE, handler, NoOutcome,
                    "handler", <<>>, <<>>)

\* processMessage threw `error` before any handler ran: handleMessageError answers.
Fail(message, kind, error) ==
  /\ Complete("handleMessage", message, kind, FALSE, "none", NoOutcome,
              <<handleMessageError(message, error)>>)
  /\ UNCHANGED <<pendingRequests, futures, tasks>>

\* Mutant: requests other than initialize are refused until initialized has arrived.
handleRequest_Gated(message, request) ==
  /\ IF request.method.v \notin DOMAIN requestHandlers
     THEN /\ Complete("handleMessage", message, "request", TRUE, "none", NoOutcome,
                      <<sendErrorResponse(request.id, MethodNotFoundError(request.method.v)),
                        handleMessageError(message, TransportError)>>)
          /\ tasks' = tasks
     ELSE IF request.method.v # "initialize" /\ "initialized" \notin handshake
     THEN /\ Complete("handleMessage", message, "request", TRUE, "none", NoOutcome,
                      <<sendErrorResponse(request.id,
                                          InvalidRequestError("Server not initialized", Undefined)),
                        handleMessageError(message, TransportError)>>)
          /\ tasks' = tasks
     ELSE Suspend(message, "request", requestHandlers[request.method.v])
  /\ UNCHANGED <<pendingRequests, futures>>

\* handleRequest up to `await handler(...)`.
handleRequest(message, request) ==
  /\ IF request.method.v \notin DOMAIN requestHandlers
     THEN /\ Complete("handleMessage", message, "request", TRUE, "none", NoOutcome,
                      <<sendErrorResponse(request.id, MethodNotFoundError(request.method.v)),
                        handleMessageError(message, TransportError)>>)
          /\ tasks' = tasks
     ELSE Suspend(message, "request", requestHandlers[request.method.v])
  /\ UNCHANGED <<pendingRequests, futures>>

\* The pending table after handleResponse(response).
\* String(id) of the ids that occur.
IdText(id) ==
  IF id = Null THEN "null"
  ELSE IF IsString(id) THEN id.v
  ELSE CASE id.v = 1 -> "1" [] id.v = 2 -> "2" [] id.v = 3 -> "3" [] OTHER -> "4"

\* Mutant: the entry is found by the text of the id, whatever its type.
handleResponsePending_Loose(pending, response) ==
  [k \in {x \in DOMAIN pending : IdText(x) # IdText(response.id)} |-> pending[k]]

handleResponsePending(pending, response) ==
  IF response.id \in DOMAIN pending THEN MapDelete(pending, response.id) ELSE pending

\* The McpError handleResponse rebuilds from an error object.
ReconstructError(error) ==
  McpError(error.code.v, error.message.v, Get(error, "data"))

\* Mutant: `pending.resolve(response.result || undefined)`.
handleResponseFutures_Falsy(pending, response) ==
  IF response.id \notin DOMAIN pending THEN futures
  ELSE [futures EXCEPT ![pending[response.id]] =
          IF "error" \in DOMAIN response /\ Truthy(response.error)
          THEN Reject(@, ReconstructError(response.error))
          ELSE Resolve(@, IF Truthy(Get(response, "result"))
                          THEN response.result ELSE Undefined)]

\* Mutant: the rebuilt error keeps data only when it is truthy.
handleResponseFutures_NoData(pending, response) ==
  IF response.id \notin DOMAIN pending THEN futures
  ELSE [futures EXCEPT ![pending[response.id]] =
          IF "error" \in DOMAIN response /\ Truthy(response.error)
          THEN Reject(@, McpError(response.error.code.v, response.error.message.v,
                                  IF Truthy(Get(response.error, "data"))
                                  THEN response.error.data ELSE Undefined))
          ELSE Resolve(@, Get(response, "result"))]

\* Mutant: correlation by arrival order, the oldest unsettled future takes the answer.
handleResponseFutures_Fifo(pending, response) ==
  IF response.id \notin DOMAIN pending THEN futures
  ELSE LET waiting == {f \in 1..Len(futures) : futures[f].state = "pending"}
           oldest == IF waiting = {} THEN pending[response.id]
                     ELSE CHOOSE f \in waiting : \A g \in waiting : f <= g
       IN [futures EXCEPT ![oldest] =
             IF "error" \in DOMAIN response /\ Truthy(response.error)
             THEN Reject(@, ReconstructError(response.error))
             ELSE Resolve(@, Get(response, "result"))]

\* The futures after handleResponse(response).
handleResponseFutures(pending, response) ==
  IF response.id \notin DOMAIN pending THEN futures
  ELSE [futures EXCEPT ![pending[response.id]] =
          IF "error" \in DOMAIN response /\ Truthy(response.error)
          THEN Reject(@, ReconstructError(response.error))
          ELSE Resolve(@, Get(response, "result"))]

\* Mutant: no `if (!pending) return`; settling an absent entry throws a TypeError.
handleResponse_NoGuard(message, response) ==
  IF response.id \in DOMAIN pendingRequests
  THEN /\ pendingRequests' = handleResponsePending(pendingRequests, response)
       /\ futures' = handleResponseFutures(pendingRequests, response)
       /\ event' = Event("handleMessage", message, "response", TRUE, "none", NoOutcome,
                         "done", <<>>, <<>>)
       /\ tasks' = tasks
  ELSE Fail(message, "response", PlainError("pending is undefined"))

\* Mutant: a serial dispatcher, which leaves a Response unprocessed while a handler
\* is suspended.
handleResponse_Serial(message, response) ==
  /\ pendingRequests' = IF tasks = <<>> THEN handleResponsePending(pendingRequests, response)
                        ELSE pendingRequests
  /\ futures' = IF tasks = <<>> THEN handleResponseFutures(pendingRequests, response)
                ELSE futures
  /\ event' = Event("handleMessage", message, "response", TRUE, "none", NoOutcome,
                    "done", <<>>, <<>>)
  /\ tasks' = tasks

handleResponse(message, response) ==
  /\ pendingRequests' = handleResponsePending(pendingRequests, response)
  /\ futures' = handleResponseFutures(pendingRequests, response)
  /\ event' = Event("handleMessage", message, "response", TRUE, "none", NoOutcome,
                    "done", <<>>, <<>>)
  /\ tasks' = tasks

\* handleNotification up to `await handler(...)`.
\* Mutant: a notification is also dispatched to the request handler of its method.
handleNotification_AnyTable(message, notification) ==
  /\ IF notification.method.v \in DOMAIN notificationHandlers
     THEN Suspend(message, "notification", notificationHandlers[notification.method.v])
     ELSE IF notification.method.v \in DOMAIN requestHandlers
     THEN Suspend(message, "notification", requestHandlers[notification.method.v])
     ELSE /\ event' = Event("handleMessage", message, "notification", TRUE, "none",
                            NoOutcome, "done", <<>>, <<>>)
          /\ tasks' = tasks
  /\ UNCHANGED <<pendingRequests, futures>>

handleNotification(message, notification) ==
  /\ IF notification.method.v \notin DOMAIN notificationHandlers
     THEN /\ event' = Event("handleMessage", message, "notification", TRUE, "none",
                            NoOutcome, "done", <<>>, <<>>)
          /\ tasks' = tasks
     ELSE Suspend(message, "notification", notificationHandlers[notification.method.v])
  /\ UNCHANGED <<pendingRequests, futures>>

\* The handshake messages received once `message` has arrived: the initialize
\* Request and the initialized Notification, when well-formed.
HandshakeAfter(message) ==
  IF isRequest(message)
  THEN IF JsonRpcRequestSchemaOK(message) /\ message.method = Str("initialize")
       THEN handshake \cup {"initialize"} ELSE handshake
  ELSE IF ~isResponse(message) /\ isNotification(message)
          /\ JsonRpcNotificationSchemaOK(message) /\ message.method = Str("initialized")
  THEN handshake \cup {"initialized"}
  ELSE handshake

\* The transport delivers one decoded message: handleMessage -> processMessage.
handleMessage(message) ==
  /\ IF isRequest(message)
     THEN IF JsonRpcRequestSchemaOK(message)
          THEN handleRequest(message, JsonRpcRequestSchema(message))
          ELSE Fail(message, "request", ZodError)
     ELSE IF isResponse(message)
     THEN IF JsonRpcResponseSchemaOK(message)
          THEN handleResponse(message, JsonRpcResponseSchema(message))
          ELSE Fail(message, "response", ZodError)
     ELSE IF isNotification(message)
     THEN IF JsonRpcNotificationSchemaOK(message)
          THEN handleNotification(message, JsonRpcNotificationSchema(message))
          ELSE Fail(message, "notification", ZodError)
     ELSE Fail(message, "invalid", InvalidRequestError("Invalid message format", Undefined))
  /\ handshake' = HandshakeAfter(message)
  /\ UNCHANGED <<periphery, options, providers, messageId, requestHandlers, notificationHandlers, connected>>

\* The envelopes handleRequest tries once the handler has settled with `outcome`.
RequestAttempts(message, request, outcome) ==
  IF outcome.k = "return"
  THEN <<sendResponse(request.id, outcome.v),
         sendErrorResponse(request.id, WrapError(TransportError)),
         handleMessageError(message, TransportError)>>
  ELSE <<sendErrorResponse(request.id, WrapError(outcome.e)),
         handleMessageError(message, TransportError)>>

\* tasks without its t-th element
Remove(seq, t) == [i \in 1..(Len(seq) - 1) |-> IF i < t THEN seq[i] ELSE seq[i + 1]]

\* The handler of request task t settles; handleRequest sends the answer.
requestHandlerSettles(t) ==
  /\ tasks[t].kind = "request"
  /\ LET request == JsonRpcRequestSchema(tasks[t].msg)
     IN \E outcome \in HandlerOutcomes(tasks[t].handler, request) :
          Complete("settle", tasks[t].msg, "request", TRUE, tasks[t].handler, outcome,
                   RequestAttempts(tasks[t].msg, request, outcome))
  /\ tasks' = Remove(tasks, t)
  /\ UNCHANGED <<periphery, options, providers, messageId, pendingRequests, requestHandlers,
                 notificationHandlers, connected, futures, handshake>>

\* Mutant: a failing notification handler is answered like a failing request handler.
notificationHandlerSettles_Answer(t) ==
  /\ tasks[t].kind = "notification"
  /\ \E outcome \in NotificationOutcomes(tasks[t].handler) :
       Complete("settle", tasks[t].msg, "notification", TRUE, tasks[t].handler, outcome,
                IF outcome.k = "throw"
                THEN <<sendErrorResponse(Null, WrapError(outcome.e))>> ELSE <<>>)
  /\ tasks' = Remove(tasks, t)
  /\ UNCHANGED <<periphery, options, providers, messageId, pendingRequests, requestHandlers,
                 notificationHandlers, connected, futures, handshake>>

\* The handler of notification task t settles; a failure is only logged.
notificationHandlerSettles(t) ==
  /\ tasks[t].kind = "notification"
  /\ \E outcome \in NotificationOutcomes(tasks[t].handler) :
       event' = Event("settle", tasks[t].msg, "notification", TRUE, tasks[t].handler,
                      outcome, "done", <<>>,
                      IF outcome.k = "throw"
                      THEN <<JsonRpcNotificationSchema(tasks[t].msg).method>> ELSE <<>>)
  /\ tasks' = Remove(tasks, t)
  /\ UNCHANGED <<periphery, options, providers, messageId, pendingRequests, requestHandlers,
                 notificationHandlers, connected, futures, handshake>>

(* ------------------------------ outbound ------------------------------- *)
\* Mutant: the id is taken from the size of the pending table.
NextMessageId_Reuse(current) == Cardinality(DOMAIN pendingRequests) + 1

\* `++this.messageId`
NextMessageId(current) == current + 1

\* { jsonrpc, id?, method, ...(params !== undefined && { params }) }
Envelope(base, params) == IF params # Undefined THEN WithKey(base, "params", params) ELSE base

\* The pending table once sendRequest has stored the entry for `id` and the
\* transport's send has ended with `ok`.
sendRequestPending(pending, id, future, ok) == MapSet(pending, Num(id), future)

sendRequest(method, params) ==
  /\ messageId < MaxRequests
  /\ \E ok \in IF connected THEN BOOLEAN ELSE {FALSE} :
       LET id == NextMessageId(messageId)
           request == Envelope([jsonrpc |-> TWO, id |-> Num(id), method |-> Str(method)],
                               params)
       IN /\ messageId' = id
          /\ pendingRequests' = sendRequestPending(pendingRequests, id, Len(futures) + 1, ok)
          /\ futures' = Append(futures, IF ok THEN Pending(id)
                                        ELSE Reject(Pending(id), TransportError))
          /\ event' = Event("sendRequest", request, "request", TRUE, "none", NoOutcome,
                            IF ok THEN "pending" ELSE "rejected",
                            <<[message |-> Serialize(request), ok |-> ok]>>, <<>>)
  /\ UNCHANGED <<periphery, options, providers, requestHandlers, notificationHandlers, connected, tasks,
                 handshake>>

\* Mutant: the notification is numbered like a request.
sendNotification_Numbered(method, params) ==
  /\ messageId < MaxRequests
  /\ \E ok \in IF connected THEN BOOLEAN ELSE {FALSE} :
       LET notification == Envelope([jsonrpc |-> TWO, id |-> Num(NextMessageId(messageId)),
                                     method |-> Str(method)], params)
       IN event' = Event("sendNotification", notification, "notification", TRUE, "none",
                         NoOutcome, IF ok THEN "done" ELSE "rejected",
                         <<[message |-> Serialize(notification), ok |-> ok]>>, <<>>)
  /\ messageId' = NextMessageId(messageId)
  /\ UNCHANGED <<periphery, options, providers, pendingRequests, requestHandlers,
                 notificationHandlers, connected, futures, tasks, handshake>>

sendNotification(method, params) ==
  /\ \E ok \in IF connected THEN BOOLEAN ELSE {FALSE} :
       LET notification == Envelope([jsonrpc |-> TWO, method |-> Str(method)], params)
       IN event' = Event("sendNotification", notification, "notification", TRUE, "none",
                         NoOutcome, IF ok THEN "done" ELSE "rejected",
                         <<[message |-> Serialize(notification), ok |-> ok]>>, <<>>)
  /\ UNCHANGED <<periphery, options, providers, messageId, pendingRequests, requestHandlers,
                 notificationHandlers, connected, futures, tasks, handshake>>

\* The record of a call that sends nothing: a registration or close().
Call(op, method, handler) ==
  Event(op, [method |-> Str(method)], "none", TRUE, handler, NoOutcome, "done", <<>>, <<>>)

\* Mutant: a registration does not replace a handler the method already has.
onRequest_FirstWins(method, handler) ==
  /\ requestHandlers' = IF method \in DOMAIN requestHandlers THEN requestHandlers
                        ELSE MapSet(requestHandlers, method, handler)
  /\ event' = Call("onRequest", method, handler)
  /\ UNCHANGED <<periphery, options, providers, messageId, pendingRequests, notificationHandlers, connected,
                 futures, tasks, handshake>>

onRequest(method, handler) ==
  /\ requestHandlers' = MapSet(requestHandlers, method, handler)
  /\ event' = Call("onRequest", method, handler)
  /\ UNCHANGED <<periphery, options, providers, messageId, pendingRequests, notificationHandlers, connected,
                 futures, tasks, handshake>>

onNotification(method, handler) ==
  /\ notificationHandlers' = MapSet(notificationHandlers, method, handler)
  /\ event' = Call("onNotification", method, handler)
  /\ UNCHANGED <<periphery, options, providers, messageId, pendingRequests, requestHandlers, connected,
                 futures, tasks, handshake>>

\* Mutant: close() also rejects every outstanding request and empties the table.
close_RejectPending ==
  /\ connected' = FALSE
  /\ futures' = [f \in 1..Len(futures) |-> Reject(futures[f], PlainError("closed"))]
  /\ pendingRequests' = EmptyMap
  /\ event' = Call("close", "", "none")
  /\ UNCHANGED <<periphery, options, providers, messageId, requestHandlers, notificationHandlers, tasks,
                 handshake>>

\* close() awaits transport.close(), which marks the transport disconnected.
close ==
  /\ connected' = FALSE
  /\ event' = Call("close", "", "none")
  /\ UNCHANGED <<periphery, options, providers, messageId, pendingRequests, requestHandlers,
                 notificationHandlers, futures, tasks, handshake>>

\* setResourceProvider, setToolProvider, ...: called between messages, since a
\* handler reads its provider when it is called.
setProvider(provider) ==
  /\ tasks = <<>>
  /\ providers' = providers \cup {provider}
  /\ event' = Call("setProvider", provider, "none")
  /\ UNCHANGED <<periphery, options, messageId, pendingRequests, requestHandlers,
                 notificationHandlers, connected, futures, tasks, handshake>>

(* ----------------------- the transports' operations -------------------- *)
\* One operation of the transport: its new fields; the event keeps the input,
\* how the operation ended and the fields before it.
TransportStep(op, size, outcome, after) ==
  /\ transport' = after
  /\ event' = [op |-> op, kind |-> transport.kind, size |-> size, outcome |-> outcome,
               before |-> transport]
  /\ UNCHANGED <<core, library, cache, defaultTtl, now, stored>>

\* The process is running and the metrics are below the values followed.
Counting ==
  /\ ~transport.uncaught
  /\ transport.messagesSent < MaxTraffic
  /\ transport.messagesReceived < MaxTraffic
  /\ transport.errors < MaxTraffic

\* onMessage(handler)
transportOnMessage ==
  /\ ~transport.uncaught
  /\ TransportStep("onMessage", 0, "registered", [transport EXCEPT !.messageHandler = TRUE])

\* StdioTransport: readline hands over one line.
handleIncomingMessage(line) ==
  /\ transport.kind = "stdio"
  /\ Counting
  /\ IF InboundTooLarge(line.size)
     THEN TransportStep("receive", line.size, "too large",
                        [transport EXCEPT !.errors = @ + 1])
     ELSE IF ~line.valid
     THEN TransportStep("receive", line.size, "invalid JSON",
                        [transport EXCEPT !.errors = @ + 1])
     ELSE TransportStep("receive", line.size, "received", Deliver(transport, line.size))

\* StdioTransport.send; `failed` is stdout.write reporting an error.
stdioSend(size, failed) ==
  /\ transport.kind = "stdio"
  /\ Counting
  /\ IF ~transport.connected
     THEN TransportStep("send", size, "not connected", transport)
     ELSE IF OutboundTooLarge(size)
     THEN TransportStep("send", size, "too large", [transport EXCEPT !.errors = @ + 1])
     ELSE IF failed
     THEN TransportStep("send", size, "write error", [transport EXCEPT !.errors = @ + 2])
     ELSE TransportStep("send", size, "sent",
                        [transport EXCEPT !.messagesSent = @ + 1,
                                          !.written = Append(@, size)])

\* StdioTransport.close
stdioClose ==
  /\ transport.kind = "stdio"
  /\ ~transport.uncaught
  /\ TransportStep("close", 0, "closed", [transport EXCEPT !.connected = FALSE])

\* HttpStreamingTransport.start: the server listens.
httpStart ==
  /\ transport.kind = "http"
  /\ ~transport.uncaught
  /\ ~transport.connected
  /\ TransportStep("start", 0, "listening", [transport EXCEPT !.connected = TRUE])

\* HttpStreamingTransport.handlePostRequest: a POST arrives; body = ''.
httpHandlePostRequest ==
  /\ transport.kind = "http"
  /\ ~transport.uncaught
  /\ transport.connected
  /\ ~transport.request.open
  /\ TransportStep("post", 0, "reading",
                   [transport EXCEPT !.request = [open |-> TRUE, body |-> 0, status |-> 0]])

\* res.writeHead(status): the headers go out once; a second writeHead throws.
WriteHead(t, status) ==
  IF t.request.status = 0
  THEN [t EXCEPT !.request.status = status]
  ELSE [t EXCEPT !.uncaught = TRUE]

\* req.on('data'): the body grows by one chunk; past the limit the listener
\* answers 413 and returns.
httpRequestData(chunk) ==
  /\ transport.kind = "http"
  /\ ~transport.uncaught
  /\ transport.request.open
  /\ transport.request.body + chunk <= MaxMessageSize + 1
  /\ LET read == [transport EXCEPT !.request.body = @ + chunk]
     IN  IF InboundTooLarge(read.request.body)
         THEN TransportStep("data", read.request.body, "too large", WriteHead(read, 413))
         ELSE TransportStep("data", read.request.body, "read", read)

\* req.on('end'): the body read so far is parsed and handed over, then
\* acknowledged; `valid` is whether JSON.parse accepts it. A failure inside the
\* try block is answered 400 from the catch block, and a writeHead that throws
\* there leaves the listener.
httpRequestEnd(valid) ==
  /\ transport.kind = "http"
  /\ Counting
  /\ transport.request.open
  /\ valid => transport.request.body > 0
  /\ LET size == transport.request.body
         caught(t) == WriteHead([t EXCEPT !.errors = @ + 1], 400)
         ended(t) == [t EXCEPT !.request = NoRequest]
     IN  IF ~valid
         THEN TransportStep("end", size, "invalid JSON", ended(caught(transport)))
         ELSE LET handed == Deliver(transport, size)
              IN  IF handed.request.status = 0
                  THEN TransportStep("end", size, "received", ended(WriteHead(handed, 200)))
                  ELSE TransportStep("end", size, "received", ended(caught(handed)))

\* HttpStreamingTransport.handleGetRequest: an event-stream client connects.
httpHandleGetRequest ==
  /\ transport.kind = "http"
  /\ ~transport.uncaught
  /\ transport.connected
  /\ transport.connections < MaxConnections
  /\ TransportStep("stream", 0, "streaming", [transport EXCEPT !.connections = @ + 1])

\* req.on('close') of an event-stream client.
httpClientClose ==
  /\ transport.kind = "http"
  /\ ~transport.uncaught
  /\ transport.connections > 0
  /\ TransportStep("disconnect", 0, "gone", [transport EXCEPT !.connections = @ - 1])

\* HttpStreamingTransport.send; `failures` of the connections throw on write.
httpSend(size, failures) ==
  /\ transport.kind = "http"
  /\ Counting
  /\ failures <= transport.connections
  /\ IF ~transport.connected
     THEN TransportStep("send", size, "not connected", transport)
     ELSE IF OutboundTooLarge(size)
     THEN TransportStep("send", size, "too large", transport)
     ELSE LET good == transport.connections - failures
          IN  TransportStep("send", size, "sent",
                            [transport EXCEPT !.messagesSent = @ + good,
                                              !.errors = @ + failures,
                                              !.connections = good,
                                              !.written = Repeat(@, size, good)])

\* HttpStreamingTransport.close
httpClose ==
  /\ transport.kind = "http"
  /\ ~transport.uncaught
  /\ TransportStep("close", 0, "closed",
                   [transport EXCEPT !.connected = FALSE, !.connections = 0])

\* LambdaStreamingTransport: the handler of createHandler on a POST event;
\* handleLambdaEvent -> handlePostRequest.
lambdaHandlePostRequest(body) ==
  /\ transport.kind = "lambda"
  /\ Counting
  /\ LET invoked == [transport EXCEPT !.connected = TRUE]
     IN  IF body.size = 0
         THEN TransportStep("receive", body.size, "no body", invoked)
         ELSE IF InboundTooLarge(body.size)
         THEN TransportStep("receive", body.size, "too large", invoked)
         ELSE IF ~body.valid
         THEN TransportStep("receive", body.size, "invalid JSON",
                            [invoked EXCEPT !.errors = @ + 1])
         ELSE TransportStep("receive", body.size, "received", Deliver(invoked, body.size))

\* LambdaStreamingTransport: the handler on a GET event; handleGetRequest builds
\* a response of statusCode and headers, which has neither write nor end, so
\* currentStream is not set.
lambdaHandleGetRequest ==
  /\ transport.kind = "lambda"
  /\ ~transport.uncaught
  /\ TransportStep("stream", 0, "not streaming", [transport EXCEPT !.connected = TRUE])

\* LambdaStreamingTransport.send
lambdaSend(size) ==
  /\ transport.kind = "lambda"
  /\ Counting
  /\ IF ~transport.connected
     THEN TransportStep("send", size, "not connected", transport)
     ELSE IF OutboundTooLarge(size)
     THEN TransportStep("send", size, "too large", transport)
     ELSE TransportStep("send", size, "sent",
                        [transport EXCEPT !.messagesSent = @ + 1,
                                          !.written = IF transport.connections > 0
                                                      THEN Append(@, size) ELSE @])

\* LambdaStreamingTransport.close
lambdaClose ==
  /\ transport.kind = "lambda"
  /\ ~transport.uncaught
  /\ TransportStep("close", 0, "closed",
                   [transport EXCEPT !.connected = FALSE, !.connections = 0])

(* ------------------------ the cache's operations ----------------------- *)
\* One operation of the cache at the present time.
CacheStep(op, uri, result, after, kept) ==
  /\ cache' = after
  /\ stored' = kept
  /\ event' = [op |-> op, uri |-> uri, result |-> result, at |-> now]
  /\ UNCHANGED <<core, library, transport, defaultTtl, now>>

\* MemoryResourceCache.get
cacheGet(uri) ==
  IF uri \notin DOMAIN cache
  THEN CacheStep("get", uri, Undefined, cache, stored)
  ELSE IF Expired(cache[uri], now)
  THEN CacheStep("get", uri, Undefined, MapDelete(cache, uri), stored)
  ELSE CacheStep("get", uri, Str(cache[uri].contents), cache, stored)

\* MemoryResourceCache.has
cacheHas(uri) ==
  IF uri \notin DOMAIN cache
  THEN CacheStep("has", uri, FALSE, cache, stored)
  ELSE IF Expired(cache[uri], now)
  THEN CacheStep("has", uri, FALSE, MapDelete(cache, uri), stored)
  ELSE CacheStep("has", uri, TRUE, cache, stored)

\* MemoryResourceCache.set
cacheSet(uri, contents, ttl) ==
  CacheStep("set", uri, Undefined,
            MapSet(cache, uri, CacheEntry(contents, ttl, defaultTtl, now)),
            MapSet(stored, uri, [contents |-> contents, ttl |-> ttl,
                                 default |-> defaultTtl, at |-> now]))

\* MemoryResourceCache.delete
cacheDelete(uri) ==
  CacheStep("delete", uri, Undefined, MapDelete(cache, uri), MapDelete(stored, uri))

\* MemoryResourceCache.clear
cacheClear ==
  CacheStep("clear", "", Undefined, EmptyMap, EmptyMap)

\* MemoryResourceCache.cleanup
cacheCleanup ==
  CacheStep("cleanup", "", Undefined,
            [uri \in {u \in DOMAIN cache : ~Expired(cache[u], now)} |-> cache[uri]],
            stored)

\* MemoryResourceCache.setDefaultTtl
setDefaultTtl(ttl) ==
  /\ defaultTtl' = ttl
  /\ event' = [op |-> "setDefaultTtl", uri |-> "", result |-> Undefined, at |-> now]
  /\ UNCHANGED <<core, library, transport, cache, now, stored>>

\* The clock advances.
Tick ==
  /\ now < MaxTime
  /\ now' = now + 1
  /\ event' = [op |-> "tick", uri |-> "", result |-> Undefined, at |-> now]
  /\ UNCHANGED <<core, library, transport, cache, defaultTtl, stored>>

(* ------------------------ the limiter's operation ---------------------- *)
\* The middleware returned by createRateLimitMiddleware, invoked for a call of
\* `toolName` at the present time; a history of MaxRate + 2 calls is followed.
rateLimitMiddleware(toolName) ==
  /\ Len(limiter.calls) < MaxRate + 2
  /\ LET counts == limiter.callCounts
         fresh == toolName \notin DOMAIN counts \/ now > counts[toolName].resetTime
         refused == ~fresh /\ counts[toolName].count >= limiter.maxCalls
         after == IF fresh
                  THEN MapSet(counts, toolName,
                              [count |-> 1, resetTime |-> now + limiter.windowMs])
                  ELSE IF refused
                  THEN counts
                  ELSE [counts EXCEPT ![toolName].count = @ + 1]
     IN  /\ limiter' = [limiter EXCEPT
                          !.callCounts = after,
                          !.calls = Append(@, [tool |-> toolName, at |-> now,
                                               passed |-> ~refused])]
         /\ event' = [op |-> "rateLimit", uri |-> toolName, at |-> now,
                      result |-> IF refused THEN Str("Rate limit exceeded") ELSE Undefined]
  /\ UNCHANGED <<core, transport, cache, defaultTtl, now, stored, chain, resources>>

(* ------------------------ the chain's operations ----------------------- *)
\* ToolMiddlewareChain.use
use(middleware) ==
  /\ Len(chain.middlewares) < MaxMiddlewares
  /\ chain' = [chain EXCEPT !.middlewares = Append(@, middleware)]
  /\ event' = [op |-> "use", uri |-> middleware, result |-> Undefined, at |-> now]
  /\ UNCHANGED <<core, transport, cache, defaultTtl, now, stored, limiter, resources>>

\* ToolMiddlewareChain.execute, until the promise it returns has settled.
execute(finalHandler) ==
  /\ LET run == next(chain.middlewares, 1, finalHandler)
     IN  chain' = [chain EXCEPT !.trace = run.trace, !.outcome = run.outcome]
  /\ event' = [op |-> "execute", uri |-> finalHandler, result |-> Undefined, at |-> now]
  /\ UNCHANGED <<core, transport, cache, defaultTtl, now, stored, limiter, resources>>

(* ------------------ the resource provider's operations ----------------- *)
\* new ResourceNotFoundError(uri)
ResourceNotFound(uri) ==
  McpError(RESOURCE_NOT_FOUND, "Resource not found: " \o uri, Undefined)

\* What resource.handler() does: it returns contents or it fails.
ResourceHandlerOutcomes == {[k |-> "return", contents |-> c] : c \in Contents} \cup {[k |-> "throw"]}

\* One operation of the provider at the present time.
ResourceStep(op, uri, result, after, entries, kept) ==
  /\ resources' = after
  /\ cache' = entries
  /\ stored' = kept
  /\ event' = [op |-> op, uri |-> uri, result |-> result, at |-> now]
  /\ UNCHANGED <<core, transport, defaultTtl, now, limiter, chain>>

\* McpResourceProvider.registerResource, without options
registerResource(uri) ==
  ResourceStep("registerResource", uri, Undefined,
               [resources EXCEPT !.registry = @ \cup {uri}], cache, stored)

\* McpResourceProvider.unregisterResource
unregisterResource(uri) ==
  ResourceStep("unregisterResource", uri, Undefined,
               [resources EXCEPT !.registry = @ \ {uri}],
               MapDelete(cache, uri), MapDelete(stored, uri))

\* McpResourceProvider.clear
resourcesClear ==
  ResourceStep("clearResources", "", Undefined,
               [resources EXCEPT !.registry = {}], EmptyMap, EmptyMap)

\* McpResourceProvider.readResource up to its first await: the cached contents,
\* a ResourceNotFoundError, or a call suspended in resource.handler().
readResource(uri) ==
  /\ Len(resources.reads) <= MaxInFlight
  /\ IF uri \in DOMAIN cache /\ ~Expired(cache[uri], now)
     THEN ResourceStep("readResource", uri, Str(cache[uri].contents), resources, cache, stored)
     ELSE IF uri \notin resources.registry
     THEN ResourceStep("readResource", uri, ResourceNotFound(uri), resources,
                       MapDelete(cache, uri), stored)
     ELSE ResourceStep("readResource", uri, [t |-> "pending"],
                       [resources EXCEPT !.reads = Append(@, uri)],
                       MapDelete(cache, uri), stored)

\* McpResourceProvider.readResource after `await resource.handler()`: the
\* contents are cached and returned, or the failure is rethrown as InvalidParams.
readResourceResumes(i, outcome) ==
  /\ i \in 1..Len(resources.reads)
  /\ LET uri == resources.reads[i]
         rest == [resources EXCEPT
                    !.reads = SubSeq(@, 1, i - 1) \o SubSeq(@, i + 1, Len(@))]
     IN  IF outcome.k = "return"
         THEN ResourceStep("readResourceReturns", uri, Str(outcome.contents), rest,
                           MapSet(cache, uri,
                                  CacheEntry(outcome.contents, NoTtl, defaultTtl, now)),
                           MapSet(stored, uri, [contents |-> outcome.contents, ttl |-> NoTtl,
                                                default |-> defaultTtl, at |-> now]))
         ELSE ResourceStep("readResourceThrows", uri,
                           InvalidParamsError("Error reading resource " \o uri \o ": failed"),
                           rest, cache, stored)

(* --------------------------- specifications ---------------------------- *)
\* The whole core: every operation on every input of the bounded sets.
Next ==
  \/ \E message \in InboundMessages : handleMessage(message)
  \/ \E t \in 1..Len(tasks) : requestHandlerSettles(t)
  \/ \E t \in 1..Len(tasks) : notificationHandlerSettles(t)
  \/ \E params \in {Undefined, Obj("p")} : sendRequest("custom", params)
  \/ \E params \in {Undefined, Obj("p")} : sendNotification("custom", params)
  \/ \E method \in Methods, handler \in UserHandlers : onRequest(method, handler)
  \/ \E method \in Methods, handler \in UserHandlers : onNotification(method, handler)
  \/ close

Spec == Init /\ [][Next]_vars

\* The dispatcher serving a peer: inbound requests, notifications and malformed
\* envelopes, handler registration and handler completion.
NextInbound ==
  \/ \E message \in InboundRequests \cup InboundNotifications \cup InboundMalformed :
       handleMessage(message)
  \/ \E t \in 1..Len(tasks) : requestHandlerSettles(t)
  \/ \E t \in 1..Len(tasks) : notificationHandlerSettles(t)
  \/ \E method \in {"initialize", "custom"} : onRequest(method, "h1")
  \/ \E method \in {"initialized", "custom"} : onNotification(method, "h1")

SpecInbound == Init /\ [][NextInbound]_vars

\* The core as a caller: sendRequest / sendNotification / close, and the peer's
\* responses (with a request and a notification from the peer in between).
NextOutbound ==
  \/ \E message \in InboundResponses \cup InboundMalformed
                    \cup {Request(Num(1), "custom", Obj("p")),
                          Notification("custom", Obj("p"))} :
       handleMessage(message)
  \/ \E params \in {Undefined, Obj("p")} : sendRequest("custom", params)
  \/ \E params \in {Undefined, Obj("p")} : sendNotification("custom", params)
  \/ close

SpecOutbound == Init /\ [][NextOutbound]_vars

\* The classifier on every combination of fields, with requests of the core's own
\* outstanding so that a misrouted message would show.
NextClassify ==
  \/ \E message \in ClassifyMessages : handleMessage(message)
  \/ \E t \in 1..Len(tasks) : requestHandlerSettles(t)
  \/ \E t \in 1..Len(tasks) : notificationHandlerSettles(t)
  \/ sendRequest("custom", Undefined)

SpecClassify == Init /\ [][NextClassify]_vars

\* The handshake in every order, around requests for an application method.
NextHandshake ==
  \/ \E message \in HandshakeMessages : handleMessage(message)
  \/ \E t \in 1..Len(tasks) : requestHandlerSettles(t)
  \/ \E t \in 1..Len(tasks) : notificationHandlerSettles(t)
  \/ onRequest("custom", "h1")

SpecHandshake == Init /\ [][NextHandshake]_vars

\* Requests in both directions at once: the peer's requests wait in their
\* handlers while further messages arrive.
NextConcurrent ==
  \/ \E message \in ConcurrentMessages : handleMessage(message)
  \/ \E t \in 1..Len(tasks) : requestHandlerSettles(t)
  \/ sendRequest("custom", Undefined)
  \/ onRequest("custom", "h1")

SpecConcurrent == Init /\ [][NextConcurrent]_vars

\* Registration and re-registration of handlers between inbound messages.
NextRegistry ==
  \/ \E method \in {"initialize", "custom"}, handler \in UserHandlers :
       onRequest(method, handler)
  \/ \E handler \in UserHandlers : onNotification("initialized", handler)
  \/ \E message \in {Request(Num(1), "initialize", ValidInitializeParams),
                      Request(Num(1), "custom", Obj("p")),
                      Notification("initialized", Undefined)} :
       handleMessage(message)
  \/ \E t \in 1..Len(tasks) : requestHandlerSettles(t)
  \/ \E t \in 1..Len(tasks) : notificationHandlerSettles(t)

SpecRegistry == Init /\ [][NextRegistry]_vars

\* The messages that ask one table for a method only the other table has.
TableMessages ==
  {Request(Num(1), "custom", Obj("p")), Notification("custom", Undefined),
   Request(Num(1), "notify", Undefined), Notification("notify", Undefined),
   Request(Num(1), "initialized", Undefined),
   Notification("initialize", ValidInitializeParams)}

\* The two tables: request handlers are registered for "custom" only and
\* notification handlers for "notify" only, next to the core's own.
NextTables ==
  \/ \E handler \in UserHandlers : onRequest("custom", handler)
  \/ \E handler \in UserHandlers : onNotification("notify", handler)
  \/ \E message \in TableMessages : handleMessage(message)
  \/ \E t \in 1..Len(tasks) : requestHandlerSettles(t)
  \/ \E t \in 1..Len(tasks) : notificationHandlerSettles(t)

SpecTables == Init /\ [][NextTables]_vars

\* Valid initialize params of another client: another protocol version, other
\* capabilities, another identity.
OtherInitializeParams ==
  [protocolVersion |-> Str("2025-03-26"), capabilities |-> Obj("p"),
   clientInfo |-> [name |-> Str("d"), version |-> Str("2")]]

\* Handshakes of two clients between the other operations of the core.
NextFixed ==
  \/ \E message \in {Request(Num(1), "initialize", ValidInitializeParams),
                      Request(Num(2), "initialize", OtherInitializeParams),
                      Notification("initialized", Undefined),
                      Request(Num(1), "custom", Obj("p"))} :
       handleMessage(message)
  \/ \E t \in 1..Len(tasks) : requestHandlerSettles(t)
  \/ \E t \in 1..Len(tasks) : notificationHandlerSettles(t)
  \/ \E method \in {"initialize", "custom"} : onRequest(method, "h1")
  \/ close

SpecFixed == Init /\ [][NextFixed]_vars

\* Responses whose id is an allocated integer, its string form, or null.
CorrelateResponses ==
  {Response(i, Obj("r")) : i \in OwnIds} \cup
  {Response(Str(IdText(i)), Obj("r")) : i \in OwnIds} \cup
  {ErrorResponse(Str(IdText(i)), e) : i \in OwnIds, e \in ErrorObjects} \cup
  {Response(Null, Obj("r"))} \cup
  {ErrorResponse(Null, e) : e \in ErrorObjects}

\* Requests go out and responses of every kind of id come in.
NextCorrelate ==
  \/ \E message \in CorrelateResponses : handleMessage(message)
  \/ \E params \in {Undefined, Obj("p")} : sendRequest("custom", params)

SpecCorrelate == Init /\ [][NextCorrelate]_vars

\* The server: the router's methods, with each provider set or not.
NextServer ==
  \/ \E message \in ServerMessages : handleMessage(message)
  \/ \E t \in 1..Len(tasks) : requestHandlerSettles(t)
  \/ \E provider \in Providers : setProvider(provider)

SpecServer == InitServer /\ [][NextServer]_vars

\* The core and the router as constructed, with no operation on them.
CoreAsConstructed ==
  /\ options = [name |-> Str("test-server"), version |-> Str("1.0.0")]
  /\ messageId = 0
  /\ pendingRequests = EmptyMap
  /\ requestHandlers = [m \in {"initialize"} |-> "handleInitialize"]
  /\ notificationHandlers = [m \in {"initialized"} |-> "initializedAck"]
  /\ connected = TRUE
  /\ futures = <<>>
  /\ tasks = <<>>
  /\ providers = {}
  /\ handshake = {}

\* A transport of each implementation, as constructed.
InitTransport ==
  /\ CoreAsConstructed
  /\ transport \in {NewTransport(kind) : kind \in TransportKinds}
  /\ cache = EmptyMap
  /\ defaultTtl = MaxTtl
  /\ now = 0
  /\ stored = EmptyMap
  /\ LibraryAsConstructed
  /\ event = [op |-> "construct", kind |-> transport.kind, size |-> 0,
              outcome |-> "constructed", before |-> transport]

\* The transports: what arrives, what is sent, who connects.
NextTransport ==
  \/ transportOnMessage
  \/ \E line \in Bodies : handleIncomingMessage(line)
  \/ \E size \in 1..(MaxMessageSize + 1), failed \in BOOLEAN : stdioSend(size, failed)
  \/ stdioClose
  \/ httpStart
  \/ httpHandlePostRequest
  \/ \E chunk \in 1..(MaxMessageSize + 1) : httpRequestData(chunk)
  \/ \E valid \in BOOLEAN : httpRequestEnd(valid)
  \/ httpHandleGetRequest
  \/ httpClientClose
  \/ \E size \in 1..(MaxMessageSize + 1), failures \in 0..MaxConnections :
       httpSend(size, failures)
  \/ httpClose
  \/ \E body \in Bodies : lambdaHandlePostRequest(body)
  \/ lambdaHandleGetRequest
  \/ \E size \in 1..(MaxMessageSize + 1) : lambdaSend(size)
  \/ lambdaClose

SpecTransport == InitTransport /\ [][NextTransport]_vars

\* new MemoryResourceCache(defaultTtl), at time 0.
InitCache ==
  /\ CoreAsConstructed
  /\ transport = NewTransport("stdio")
  /\ cache = EmptyMap
  /\ defaultTtl \in (-1)..MaxTtl
  /\ now = 0
  /\ stored = EmptyMap
  /\ LibraryAsConstructed
  /\ event = [op |-> "construct", uri |-> "", result |-> Undefined, at |-> 0]

\* The cache: every operation at every time of the clock.
NextCache ==
  \/ \E uri \in Uris : cacheGet(uri)
  \/ \E uri \in Uris : cacheHas(uri)
  \/ \E uri \in Uris, contents \in Contents, ttl \in TtlArguments : cacheSet(uri, contents, ttl)
  \/ \E uri \in Uris : cacheDelete(uri)
  \/ cacheClear
  \/ cacheCleanup
  \/ \E ttl \in (-1)..MaxTtl : setDefaultTtl(ttl)
  \/ Tick

SpecCache == InitCache /\ [][NextCache]_vars

\* createRateLimitMiddleware(maxCalls, windowMs) for every pair of arguments.
InitRateLimit ==
  /\ CoreAsConstructed
  /\ transport = NewTransport("stdio")
  /\ cache = EmptyMap
  /\ defaultTtl = MaxTtl
  /\ now = 0
  /\ stored = EmptyMap
  /\ limiter \in {NewLimiter(maxCalls, windowMs) :
                    maxCalls \in 0..MaxRate, windowMs \in 1..MaxWindow}
  /\ chain = NewChain
  /\ resources = NewResources
  /\ event = [op |-> "construct", uri |-> "", result |-> Undefined, at |-> 0]

\* The rate limiter: calls of either tool at every time of the clock.
NextRateLimit ==
  \/ \E toolName \in ToolNames : rateLimitMiddleware(toolName)
  \/ Tick

SpecRateLimit == InitRateLimit /\ [][NextRateLimit]_vars

\* The middlewares and providers as constructed, over an untouched core.
InitLibrary ==
  /\ CoreAsConstructed
  /\ PeripheryAsConstructed
  /\ event = [op |-> "construct", uri |-> "", result |-> Undefined, at |-> 0]

\* The chain: middlewares are registered and the chain is executed.
NextChain ==
  \/ \E middleware \in MiddlewareKinds : use(middleware)
  \/ \E finalHandler \in FinalHandlers : execute(finalHandler)

SpecChain == InitLibrary /\ [][NextChain]_vars

\* The resource provider with its cache: resources are registered, read and
\* unregistered while handlers run and the clock advances.
NextResources ==
  \/ \E uri \in Uris : registerResource(uri)
  \/ \E uri \in Uris : unregisterResource(uri)
  \/ resourcesClear
  \/ \E uri \in Uris : readResource(uri)
  \/ \E i \in 1..(MaxInFlight + 1), outcome \in ResourceHandlerOutcomes : readResourceResumes(i, outcome)
  \/ Tick

SpecResources == InitLibrary /\ [][NextResources]_vars

(* ------------------------------- claims -------------------------------- *)
\* The last operation was handleMessage on an envelope that is a Response by
\* classification and passes the Response schema.
ResponseEvent ==
  /\ event.op = "handleMessage"
  /\ ~isRequest(event.msg) /\ isResponse(event.msg)
  /\ JsonRpcResponseSchemaOK(event.msg)

\* The futures whose request carried the id of the last inbound message.
FuturesOfId == {f \in 1..Len(event.futuresBefore) : Num(event.futuresBefore[f].id) = event.msg.id}

\* Already answered: settled by an earlier Response (not by a failed send).
Answered(future) ==
  \/ future.state = "resolved"
  \/ future.state = "rejected" /\ future.reason.cls = "McpError"

\* C1: when the handler of an inbound Request has settled (returned a value,
\* returned nothing, thrown a typed or an untyped error) and the transport accepted
\* the write, exactly one message was written for it; it carries the Request's id
\* and exactly one of result and error.
C1_ExactlyOneResponse ==
  (event.op = "settle" /\ event.kind = "request" /\ event.tries[1].ok) =>
    /\ Len(event.tries) = 1
    /\ "id" \in DOMAIN event.tries[1].message
    /\ event.tries[1].message.id = event.msg.id
    /\ ("result" \in DOMAIN event.tries[1].message)
         # ("error" \in DOMAIN event.tries[1].message)

\* C2: an inbound well-formed Request whose method has no registered handler
\* invokes no handler and is answered with an error Response of code -32601
\* carrying the Request's id; when the transport accepts that write it is the only
\* message sent for the Request.
C2_MethodNotFound ==
  (/\ event.op = "handleMessage"
   /\ isRequest(event.msg) /\ JsonRpcRequestSchemaOK(event.msg)
   /\ event.msg.method.v \notin DOMAIN requestHandlers) =>
    /\ event.pc \in {"done", "rejected"}
    /\ event.handler = "none" /\ event.outcome = NoOutcome
    /\ Len(event.tries) >= 1
    /\ event.tries[1].message.id = event.msg.id
    /\ "error" \in DOMAIN event.tries[1].message
    /\ "result" \notin DOMAIN event.tries[1].message
    /\ event.tries[1].message.error.code = Num(-32601)
    /\ (event.tries[1].ok => Len(event.tries) = 1)

C2_Witness ==
  /\ event.op = "handleMessage"
  /\ isRequest(event.msg) /\ JsonRpcRequestSchemaOK(event.msg)
  /\ event.msg.method.v \notin DOMAIN requestHandlers
  /\ event.msg.id = Str("a")
  /\ Len(event.tries) = 1 /\ event.tries[1].ok

\* C3: a well-formed success Response whose id is that of a request still awaiting
\* its answer resolves that request's future with exactly the Response's result.
C3_RoundTripSuccess ==
  (ResponseEvent /\ "error" \notin DOMAIN event.msg) =>
    \A f \in FuturesOfId :
      event.futuresBefore[f].state = "pending" =>
        futures[f] = [state |-> "resolved", id |-> event.futuresBefore[f].id,
                      value |-> event.msg.result]

C3_Witness ==
  /\ ResponseEvent /\ event.msg = Response(Num(1), Null)
  /\ Len(event.futuresBefore) >= 1
  /\ event.futuresBefore[1].state = "pending"
  /\ futures[1].state = "resolved" /\ futures[1].value = Null

\* C4: a well-formed Response carrying an error object {code, message, data} whose
\* id is that of a request still awaiting its answer rejects that request's future
\* with an McpError of the same code, message and data.
C4_RoundTripError ==
  (ResponseEvent /\ "error" \in DOMAIN event.msg) =>
    \A f \in FuturesOfId :
      event.futuresBefore[f].state = "pending" =>
        futures[f] = [state |-> "rejected", id |-> event.futuresBefore[f].id,
                      reason |-> [cls |-> "McpError",
                                  code |-> event.msg.error.code.v,
                                  message |-> event.msg.error.message.v,
                                  data |-> IF "data" \in DOMAIN event.msg.error
                                           THEN event.msg.error.data ELSE Undefined]]

C4_Witness ==
  /\ ResponseEvent /\ "error" \in DOMAIN event.msg
  /\ "data" \in DOMAIN event.msg.error /\ event.msg.error.data = Num(0)
  /\ \E f \in FuturesOfId :
       /\ event.futuresBefore[f].state = "pending"
       /\ futures[f].state = "rejected" /\ futures[f].reason.data = Num(0)

\* C5: a Response settles the future of the request that carried its id and no
\* other: every future an inbound Response changes is the one whose request had the
\* Response's id, and it is settled with that Response's own result or error,
\* whatever the order in which the Responses arrive.
C5_IdCorrelation ==
  ResponseEvent =>
    /\ Len(futures) = Len(event.futuresBefore)
    /\ \A f \in 1..Len(futures) :
         futures[f] # event.futuresBefore[f] =>
           /\ f \in FuturesOfId
           /\ IF "error" \in DOMAIN event.msg
              THEN futures[f].state = "rejected"
                   /\ futures[f].reason = ReconstructError(event.msg.error)
              ELSE futures[f].state = "resolved"
                   /\ futures[f].value = event.msg.result
    /\ \A f \in FuturesOfId : futures[f].state # "pending"

\* Two requests outstanding, the second answered first, then the first.
C5_Witness ==
  /\ ResponseEvent /\ event.msg.id = Num(1)
  /\ Len(futures) = 2 /\ Len(event.futuresBefore) = 2
  /\ event.futuresBefore[1].state = "pending"
  /\ event.futuresBefore[2].state = "resolved"
  /\ futures[1].state = "resolved"
  /\ futures[1].value # futures[2].value

\* C6: a well-formed Response whose id no sendRequest has allocated, or whose
\* request an earlier Response already answered, has no effect: handleMessage
\* resolves, nothing is sent or logged, no future changes and the pending table is
\* as it was.
C6_UnmatchedResponseIgnored ==
  (/\ ResponseEvent
   /\ \/ FuturesOfId = {}
      \/ \E f \in FuturesOfId : Answered(event.futuresBefore[f])) =>
    /\ event.pc = "done"
    /\ event.tries = <<>> /\ event.logged = <<>>
    /\ futures = event.futuresBefore
    /\ pendingRequests = event.pendingBefore

C6_Witness ==
  /\ ResponseEvent
  /\ \E f \in FuturesOfId : Answered(event.futuresBefore[f])
  /\ DOMAIN pendingRequests # {}
  /\ event.pc = "done"

\* C7: a well-formed inbound Notification never makes the core send: not when it
\* arrives (with or without a handler for its method), not when its handler
\* completes, not when its handler fails, and then the failure is logged.
C7_NotificationsNeverAnswered ==
  (/\ event.op \in {"handleMessage", "settle"}
   /\ isNotification(event.msg) /\ JsonRpcNotificationSchemaOK(event.msg)) =>
    /\ event.tries = <<>>
    /\ event.pc # "rejected"
    /\ (event.outcome.k = "throw" => event.logged # <<>>)

C7_Witness ==
  /\ event.op = "settle"
  /\ isNotification(event.msg) /\ JsonRpcNotificationSchemaOK(event.msg)
  /\ event.outcome.k = "throw"
  /\ event.tries = <<>>

\* C8: when the transport's send fails during sendRequest, the returned future is
\* rejected with the transport's error and the pending table holds no entry for the
\* id that call allocated.
C8_FailedSendLeavesNoEntry ==
  (event.op = "sendRequest" /\ event.pc = "rejected") =>
    /\ futures[Len(futures)].state = "rejected"
    /\ futures[Len(futures)].reason = TransportError
    /\ event.msg.id \notin DOMAIN pendingRequests

\* C9: the k-th sendRequest call is given id k: ids start at 1, grow by one per call
\* and are never reused, whatever Responses, failed sends and sendNotification calls
\* come in between; the envelope carries that id.
C9_IdsSequential ==
  /\ messageId = Len(futures)
  /\ \A k \in 1..Len(futures) : futures[k].id = k
  /\ (event.op = "sendRequest" =>
        /\ event.msg.id = Num(Len(futures))
        /\ event.tries[1].message.id = Num(Len(futures)))

\* The second call comes after the first was answered.
C9_Witness ==
  /\ event.op = "sendRequest" /\ event.msg.id = Num(2)
  /\ Len(futures) = 2 /\ futures[1].state = "resolved"
  /\ DOMAIN pendingRequests = {Num(2)}

\* C10: when a request handler throws McpError(c, m, d) and the transport accepts
\* the write, the error Response carries code c, message m and data d (no data key
\* when d is undefined), for every d, falsy values included.
C10_TypedErrorForwarded ==
  (/\ event.op = "settle" /\ event.kind = "request"
   /\ event.outcome.k = "throw" /\ IsMcpError(event.outcome.e)
   /\ event.tries[1].ok) =>
    /\ "error" \in DOMAIN event.tries[1].message
    /\ event.tries[1].message.error.code = Num(event.outcome.e.code)
    /\ event.tries[1].message.error.message = Str(event.outcome.e.message)
    /\ IF event.outcome.e.data = Undefined
       THEN "data" \notin DOMAIN event.tries[1].message.error
       ELSE /\ "data" \in DOMAIN event.tries[1].message.error
            /\ event.tries[1].message.error.data = event.outcome.e.data

\* C11: when a request handler fails with an untyped failure and the transport
\* accepts the write, the error Response carries code -32603, the message
\* "Internal error" and the failure's description in data; the description is not
\* the Response's message.
C11_UntypedErrorWrapped ==
  (/\ event.op = "settle" /\ event.kind = "request"
   /\ event.outcome.k = "throw" /\ ~IsMcpError(event.outcome.e)
   /\ event.tries[1].ok) =>
    /\ "error" \in DOMAIN event.tries[1].message
    /\ event.tries[1].message.id = event.msg.id
    /\ event.tries[1].message.error.code = Num(-32603)
    /\ event.tries[1].message.error.message = Str("Internal error")
    /\ "data" \in DOMAIN event.tries[1].message.error
    /\ event.tries[1].message.error.data = Str(event.outcome.e.message)

\* C12: the promise handleMessage returns never rejects, whatever the message, the
\* outcome of its classification and of its handler, and however many of the
\* transport's sends fail.
C12_HandleMessageNeverRejects ==
  event.op \in {"handleMessage", "settle"} => event.pc # "rejected"

\* C13: when the transport refuses the Response carrying a handler's result, the
\* core makes no further send for that Request: no error Response is transmitted
\* on account of the failed send.
C13_SendFailureNotAnswered ==
  (/\ event.op = "settle" /\ event.kind = "request"
   /\ event.outcome.k = "return" /\ ~event.tries[1].ok) =>
    \A i \in 2..Len(event.tries) : "error" \notin DOMAIN event.tries[i].message

\* C14: the error Response for a message classified as Request or Notification
\* that fails its schema is addressed to the message's id when the message has an
\* id, and to null only when it has none.
C14_SchemaErrorKeepsId ==
  (/\ event.op = "handleMessage" /\ ~event.valid
   /\ event.kind \in {"request", "notification"}) =>
    /\ Len(event.tries) >= 1
    /\ "error" \in DOMAIN event.tries[1].message
    /\ event.tries[1].message.id =
         (IF "id" \in DOMAIN event.msg THEN event.msg.id ELSE Null)

\* C15: a message classified as Response that fails the Response schema is
\* dropped: nothing is sent, no future is settled, the pending table is unchanged.
C15_InvalidResponseDropped ==
  (event.op = "handleMessage" /\ event.kind = "response" /\ ~event.valid) =>
    /\ event.tries = <<>>
    /\ futures = event.futuresBefore
    /\ pendingRequests = event.pendingBefore

\* C16: an inbound Response (id, no method) that carries both result and error, or
\* neither, settles no future.
C16_ResultXorError ==
  (/\ event.op = "handleMessage"
   /\ "id" \in DOMAIN event.msg /\ "method" \notin DOMAIN event.msg
   /\ ("result" \in DOMAIN event.msg) = ("error" \in DOMAIN event.msg)) =>
    futures = event.futuresBefore

\* The kind the precedence rule gives a message, from the presence of its fields.
ExpectedKind(m) ==
  IF "id" \in DOMAIN m /\ "method" \in DOMAIN m THEN "request"
  ELSE IF "id" \in DOMAIN m /\ ("result" \in DOMAIN m \/ "error" \in DOMAIN m)
  THEN "response"
  ELSE IF "method" \in DOMAIN m THEN "notification"
  ELSE "invalid"

\* C17: for every combination of presence of id, method, result and error, the
\* message is handled as the one kind the precedence rule gives it: as a Request it
\* settles no future, as a Response or a Notification it is not dispatched to a
\* request handler and nothing is sent, and any other message is answered with an
\* error Response.
C17_Classification ==
  event.op = "handleMessage" =>
    /\ event.kind = ExpectedKind(event.msg)
    /\ (event.kind = "request" =>
          /\ futures = event.futuresBefore
          /\ pendingRequests = event.pendingBefore)
    /\ (event.kind = "response" /\ event.valid =>
          /\ event.tries = <<>>
          /\ event.handler = "none" /\ event.pc = "done")
    /\ (event.kind = "notification" /\ event.valid =>
          /\ event.tries = <<>>
          /\ event.handler \in {"none"} \cup
                {notificationHandlers[x] : x \in DOMAIN notificationHandlers}
          /\ futures = event.futuresBefore)
    /\ (event.kind = "invalid" =>
          /\ event.handler = "none"
          /\ futures = event.futuresBefore
          /\ Len(event.tries) >= 1
          /\ "error" \in DOMAIN event.tries[1].message
          /\ "result" \notin DOMAIN event.tries[1].message)

\* A message with id, method and result arrives while the request of that id is
\* outstanding: it is a Request, and the future stays pending.
C17_Witness ==
  /\ event.op = "handleMessage" /\ event.kind = "request"
  /\ {"id", "method", "result"} \subseteq DOMAIN event.msg
  /\ Len(futures) >= 1 /\ futures[1].state = "pending"
  /\ event.msg.id \in DOMAIN pendingRequests

\* The last operation answered an initialize Request handled by the core's own
\* handler, and the transport accepted the first write.
InitializeAnswered ==
  /\ event.op = "settle" /\ event.kind = "request"
  /\ event.handler = "handleInitialize"
  /\ event.tries[1].ok

\* params has protocolVersion, capabilities and clientInfo with name and version.
CompleteInitializeParams(params) ==
  /\ "t" \notin DOMAIN params
  /\ {"protocolVersion", "capabilities", "clientInfo"} \subseteq DOMAIN params
  /\ "t" \notin DOMAIN params.clientInfo
  /\ {"name", "version"} \subseteq DOMAIN params.clientInfo

\* The capability overrides the server was configured with.
Overrides == IF "capabilities" \in DOMAIN options THEN options.capabilities ELSE EmptyMap

\* C18: an initialize Request with complete params is answered with a result whose
\* serverInfo is the configured {name, version} and whose capabilities have every
\* default key and every override key, each key holding the override's value when
\* the override has it and the default's otherwise.
C18_InitializeResult ==
  (InitializeAnswered /\ CompleteInitializeParams(Get(event.msg, "params"))) =>
    /\ Len(event.tries) = 1
    /\ event.tries[1].message.id = event.msg.id
    /\ "result" \in DOMAIN event.tries[1].message
    /\ "error" \notin DOMAIN event.tries[1].message
    /\ event.tries[1].message.result.serverInfo =
         [name |-> options.name, version |-> options.version]
    /\ LET capabilities == event.tries[1].message.result.capabilities
       IN /\ DOMAIN capabilities = DOMAIN DefaultCapabilities \cup DOMAIN Overrides
          /\ \A k \in DOMAIN capabilities :
               capabilities[k] = IF k \in DOMAIN Overrides THEN Overrides[k]
                                 ELSE DefaultCapabilities[k]

\* The server overrides tools and adds experimental; the other defaults stay.
C18_Witness ==
  /\ InitializeAnswered /\ CompleteInitializeParams(Get(event.msg, "params"))
  /\ DOMAIN Overrides = {"tools", "experimental"}
  /\ event.tries[1].message.result.capabilities.tools = [listChanged |-> Bool(FALSE)]
  /\ event.tries[1].message.result.capabilities.resources = DefaultCapabilities.resources

\* C19: an initialize Request whose params lack protocolVersion, capabilities or
\* clientInfo (name and version) is answered with an error Response of code -32600
\* carrying the Request's id; it is the only message sent and no result is sent.
C19_InitializeInvalidParams ==
  (InitializeAnswered /\ ~CompleteInitializeParams(Get(event.msg, "params"))) =>
    /\ Len(event.tries) = 1
    /\ event.tries[1].message.id = event.msg.id
    /\ "error" \in DOMAIN event.tries[1].message
    /\ "result" \notin DOMAIN event.tries[1].message
    /\ event.tries[1].message.error.code = Num(-32600)

C19_Witness ==
  /\ InitializeAnswered
  /\ "params" \in DOMAIN event.msg /\ "t" \notin DOMAIN event.msg.params
  /\ DOMAIN event.msg.params = {"protocolVersion", "capabilities"}
  /\ event.tries[1].message.error.code = Num(-32600)

\* The envelope that answers `request` once its handler has settled with `outcome`.
Answer(request, outcome) ==
  IF outcome.k = "return" THEN Response(request.id, outcome.v)
  ELSE ErrorResponse(request.id,
                     toJsonRpcError(IF IsMcpError(outcome.e) THEN outcome.e
                                    ELSE McpError(-32603, "Internal error",
                                                  Str(outcome.e.message))))

\* C20: whatever handshake messages have arrived so far (none, initialize,
\* initialized, both, in any order), a well-formed Request for a registered method
\* is handed to the handler registered for it with nothing sent meanwhile, and when
\* the handler settles the first message sent is the answer its outcome determines.
C20_HandshakeGatesNothing ==
  \A phase \in SUBSET {"initialize", "initialized"} :
    handshake = phase =>
      /\ (/\ event.op = "handleMessage"
          /\ isRequest(event.msg) /\ JsonRpcRequestSchemaOK(event.msg)
          /\ event.msg.method.v \in DOMAIN requestHandlers) =>
            /\ event.pc = "handler" /\ event.tries = <<>>
            /\ event.handler = requestHandlers[event.msg.method.v]
            /\ Len(tasks) >= 1
            /\ tasks[Len(tasks)] = [msg |-> event.msg, kind |-> "request",
                                     handler |-> event.handler]
      /\ (event.op = "settle" /\ event.kind = "request") =>
            /\ Len(event.tries) >= 1
            /\ event.tries[1].message = Serialize(Answer(event.msg, event.outcome))

\* A Request for an application method is dispatched before any handshake message.
C20_Witness ==
  /\ handshake = {}
  /\ event.op = "handleMessage" /\ event.kind = "request"
  /\ event.msg.method = Str("custom")
  /\ event.pc = "handler" /\ event.handler = "h1"

OnlySet(before, after, method, handler) ==
  /\ DOMAIN after = DOMAIN before \cup {method}
  /\ \A m \in DOMAIN after : after[m] = IF m = method THEN handler ELSE before[m]

\* C22: a registration sets the handler of its method (the built-in initialize and
\* initialized handlers included) and of no other method, in its own table only;
\* nothing but a registration changes a table; and an inbound Request or
\* Notification is handed to the handler its method has in the table when the
\* message is processed, that is, to the one registered last.
C22_LastRegistrationWins ==
  [][/\ event'.op = "onRequest" =>
          /\ OnlySet(requestHandlers, requestHandlers', event'.msg.method.v, event'.handler)
          /\ notificationHandlers' = notificationHandlers
     /\ event'.op = "onNotification" =>
          /\ OnlySet(notificationHandlers, notificationHandlers',
                     event'.msg.method.v, event'.handler)
          /\ requestHandlers' = requestHandlers
     /\ event'.op \notin {"onRequest", "onNotification"} =>
          /\ requestHandlers' = requestHandlers
          /\ notificationHandlers' = notificationHandlers
     /\ (event'.op = "handleMessage" /\ event'.valid /\ event'.kind = "request") =>
          IF event'.msg.method.v \in DOMAIN requestHandlers
          THEN event'.pc = "handler"
               /\ event'.handler = requestHandlers[event'.msg.method.v]
          ELSE event'.handler = "none"
     /\ (event'.op = "handleMessage" /\ event'.valid /\ event'.kind = "notification") =>
          IF event'.msg.method.v \in DOMAIN notificationHandlers
          THEN event'.pc = "handler"
               /\ event'.handler = notificationHandlers[event'.msg.method.v]
          ELSE event'.handler = "none"
    ]_vars

\* initialize was given to h2, its latest handler, while custom keeps h1.
C22_Witness ==
  /\ event.op = "handleMessage" /\ event.kind = "request"
  /\ event.msg.method = Str("initialize")
  /\ event.handler = "h2"
  /\ DOMAIN requestHandlers = {"initialize", "custom"}
  /\ requestHandlers["custom"] = "h1"
  /\ notificationHandlers["initialized"] = "h1"

\* C23: sendNotification makes exactly one send, of an envelope with the method and
\* no id (params when given); it leaves the id counter, the pending table and the
\* futures as they were; its promise resolves when the transport accepts the write
\* and rejects when the send fails.
C23_SendNotification ==
  [][event'.op = "sendNotification" =>
       /\ messageId' = messageId
       /\ pendingRequests' = pendingRequests
       /\ futures' = futures
       /\ Len(event'.tries) = 1
       /\ "id" \notin DOMAIN event'.tries[1].message
       /\ "method" \in DOMAIN event'.tries[1].message
       /\ event'.tries[1].message.method = event'.msg.method
       /\ event'.tries[1].message.jsonrpc = Str("2.0")
       /\ event'.pc = IF event'.tries[1].ok THEN "done" ELSE "rejected"
    ]_vars

\* A notification is sent while request 1 is outstanding.
C23_Witness ==
  /\ event.op = "sendNotification" /\ event.pc = "done"
  /\ "params" \in DOMAIN event.tries[1].message
  /\ messageId = 1 /\ DOMAIN pendingRequests = {Num(1)}
  /\ futures[1].state = "pending"

\* C24: close() changes nothing of the core: no future is resolved or rejected, and
\* the pending table, both handler tables and the id counter are as before; the
\* transport is closed.
C24_CloseOnlyDelegates ==
  [][event'.op = "close" =>
       /\ futures' = futures
       /\ pendingRequests' = pendingRequests
       /\ requestHandlers' = requestHandlers
       /\ notificationHandlers' = notificationHandlers
       /\ messageId' = messageId
       /\ ~connected'
    ]_vars

\* close() with request 1 outstanding: its future is still pending afterwards.
C24_Witness ==
  /\ event.op = "close" /\ ~connected
  /\ Len(futures) >= 1 /\ futures[1].state = "pending"
  /\ Num(1) \in DOMAIN pendingRequests

\* The last operation answered a Request handled by `handlers` of the router while
\* `provider` was unset, and the transport accepted the first write.
AnsweredWithout(handlers, provider) ==
  /\ event.op = "settle" /\ event.kind = "request"
  /\ event.handler \in handlers /\ provider \notin providers
  /\ event.tries[1].ok

\* The first message written is a result holding an empty list under `key`.
EmptyListSent(key) ==
  /\ "result" \in DOMAIN event.tries[1].message
  /\ event.tries[1].message.result = [k \in {key} |-> [t |-> "array", v |-> <<>>]]

\* The first message written is an error Response with `code`.
ErrorSent(code) ==
  /\ "error" \in DOMAIN event.tries[1].message
  /\ "result" \notin DOMAIN event.tries[1].message
  /\ event.tries[1].message.error.code = Num(code)

\* C25: with the provider unset, resources/list, tools/list, prompts/list and
\* roots/list are answered with an empty list, and tools/call, resources/read,
\* prompts/get and resources/subscribe with an error Response of code -32602.
C25_UnsetProviderDefaults ==
  /\ AnsweredWithout({"handleListResources"}, "resource") => EmptyListSent("resources")
  /\ AnsweredWithout({"handleListTools"}, "tool") => EmptyListSent("tools")
  /\ AnsweredWithout({"handleListPrompts"}, "prompt") => EmptyListSent("prompts")
  /\ AnsweredWithout({"handleListRoots"}, "root") => EmptyListSent("roots")
  /\ AnsweredWithout({"handleCallTool"}, "tool") => ErrorSent(-32602)
  /\ AnsweredWithout({"handleReadResource", "handleSubscribeResource"}, "resource") =>
       ErrorSent(-32602)
  /\ AnsweredWithout({"handleGetPrompt"}, "prompt") => ErrorSent(-32602)

\* C26: logging/setLevel without a logging provider and sampling/createMessage
\* without a sampling provider are answered with an error Response of code -32004.
C26_CapabilityNotSupported ==
  /\ AnsweredWithout({"handleSetLogLevel"}, "logging") => ErrorSent(-32004)
  /\ AnsweredWithout({"handleCreateMessage"}, "sampling") => ErrorSent(-32004)

\* C27: when the tool provider's call for a tools/call Request returned the string
\* s and the transport accepts the write, exactly one message is sent: a Response
\* with the Request's id and result {content: [{type: "text", text: s}]}.
C27_ToolCallText ==
  (/\ event.op = "settle" /\ event.handler = "handleCallTool"
   /\ "provided" \in DOMAIN event.outcome /\ event.outcome.provided.t = "string"
   /\ event.tries[1].ok) =>
    /\ Len(event.tries) = 1
    /\ event.tries[1].message.id = event.msg.id
    /\ "error" \notin DOMAIN event.tries[1].message
    /\ "result" \in DOMAIN event.tries[1].message
    /\ event.tries[1].message.result =
         [content |-> [t |-> "array",
                       v |-> <<[type |-> Str("text"), text |-> event.outcome.provided]>>]]

\* The echo tool returned "hi" for Request 1.
C27_Witness ==
  /\ event.op = "settle" /\ event.handler = "handleCallTool"
  /\ event.msg.id = Num(1) /\ event.msg.method = Str("tools/call")
  /\ "provided" \in DOMAIN event.outcome /\ event.outcome.provided = Str("hi")
  /\ event.tries[1].ok
  /\ event.tries[1].message.result.content.v[1].text = Str("hi")

(* ------------------------ the transports' limits ----------------------- *)
\* C28: in every transport implementation (stdio, HTTP, Lambda) an inbound
\* message larger than maxMessageSize is rejected at the transport and is never
\* given to the registered message callback: no message the callback has been
\* given is larger than maxMessageSize.
C28_OversizedNeverDelivered ==
  \A i \in 1..Len(transport.delivered) : transport.delivered[i] <= MaxMessageSize

\* C29: send(message) fails when the serialized message is longer than
\* maxMessageSize, and then nothing is written to the channel and the count of
\* sent messages is unchanged; a message of exactly maxMessageSize passes the
\* size check of a connected transport (it is sent, or the channel's write fails).
C29_SendSizeLimit ==
  event.op = "send" =>
    /\ event.size > MaxMessageSize =>
         /\ event.outcome \in {"too large", "not connected"}
         /\ transport.written = event.before.written
         /\ transport.messagesSent = event.before.messagesSent
    /\ (event.size = MaxMessageSize /\ event.before.connected) =>
         event.outcome \in {"sent", "write error"}

\* A message of exactly maxMessageSize is on the channel, and the send just
\* made, of a longer message on the connected transport, was refused.
C29_Witness ==
  /\ event.op = "send"
  /\ event.before.connected
  /\ event.size = MaxMessageSize + 1
  /\ event.outcome = "too large"
  /\ \E i \in 1..Len(transport.written) : transport.written[i] = MaxMessageSize

(* ----------------------- the cache's time-to-live ---------------------- *)
\* C30: an entry stored by set(uri, c, t) with t > 0 at time T is returned by
\* get(uri) and reported by has(uri) at every time up to T + t, and after T + t
\* get(uri) is undefined and has(uri) is false; set without a TTL argument uses
\* the default TTL in force at the time of the set (which, when it is not
\* positive, sets no expiry).
C30_TtlExpiry ==
  (event.op \in {"get", "has"} /\ event.uri \in DOMAIN stored) =>
    LET s == stored[event.uri]
        ttl == IF s.ttl = NoTtl THEN s.default ELSE s.ttl.v
        live == ttl <= 0 \/ now <= s.at + ttl
    IN  (s.ttl = NoTtl \/ s.ttl.v > 0) =>
          IF event.op = "get"
          THEN event.result = (IF live THEN Str(s.contents) ELSE Undefined)
          ELSE event.result = live

\* get at the very time T + t returns the contents set with t > 0, under a
\* default TTL that differs from t.
C30_Witness ==
  /\ event.op = "get"
  /\ event.uri \in DOMAIN stored
  /\ stored[event.uri].ttl # NoTtl
  /\ stored[event.uri].ttl.v > 0
  /\ stored[event.uri].default # stored[event.uri].ttl.v
  /\ now = stored[event.uri].at + stored[event.uri].ttl.v
  /\ event.result = Str(stored[event.uri].contents)

\* C31: an entry stored with a TTL of 0 or a negative TTL does not expire: get
\* returns it at every later time until it is deleted, cleared or overwritten,
\* whatever the cache's default TTL.
C31_NonPositiveTtlNeverExpires ==
  (event.op = "get" /\ event.uri \in DOMAIN stored) =>
    LET s == stored[event.uri]
    IN  (s.ttl # NoTtl /\ s.ttl.v <= 0) => event.result = Str(s.contents)

(* ------------------------- the limiter's windows ----------------------- *)
\* The start of the window the i-th call falls in: the time of the first call of
\* its tool after the previous window of that tool expired.
RECURSIVE WindowOf(_)
WindowOf(i) ==
  LET earlier == {j \in 1..(i - 1) : limiter.calls[j].tool = limiter.calls[i].tool}
  IN  IF earlier = {}
      THEN limiter.calls[i].at
      ELSE LET p == CHOOSE j \in earlier : \A k \in earlier : k <= j
           IN  IF limiter.calls[i].at > WindowOf(p) + limiter.windowMs
               THEN limiter.calls[i].at
               ELSE WindowOf(p)

\* The calls of the i-th call's tool and window up to the i-th that were passed on.
PassedBefore(i) ==
  {j \in 1..(i - 1) : /\ limiter.calls[j].tool = limiter.calls[i].tool
                      /\ WindowOf(j) = WindowOf(i)
                      /\ limiter.calls[j].passed}

\* C32: for each tool name separately and for every non-negative maxCalls,
\* within one window at most maxCalls calls are passed on to next; every further
\* call in that window fails with a rate-limit error without invoking next, and
\* a call is refused only when maxCalls calls of its window were passed on.
C32_RateLimit ==
  \A i \in 1..Len(limiter.calls) :
    limiter.calls[i].passed <=> Cardinality(PassedBefore(i)) < limiter.maxCalls

(* ------------------------- the chain's order --------------------------- *)
\* C33: execute runs the middlewares in registration order, each one's part
\* before next ahead of the next one's, the final handler after all of them, and
\* the parts after next in reverse order; when a middleware fails without
\* calling next the final handler is not invoked and execute fails with that
\* error; with no middleware execute returns the final handler's result.
C33_ChainOrder ==
  event.op = "execute" =>
    LET n == Len(chain.middlewares)
        t == chain.trace
        throwing == {i \in 1..n : chain.middlewares[i] = "throws"}
        around == {i \in 1..n : chain.middlewares[i] = "around"}
    IN  IF throwing # {}
        THEN LET b == CHOOSE i \in throwing : \A j \in throwing : i <= j
             IN  /\ Len(t) = b
                 /\ \A i \in 1..b : t[i] = [part |-> "pre", index |-> i]
                 /\ chain.outcome = [k |-> "throw", by |-> b]
        ELSE /\ Len(t) > n
             /\ \A i \in 1..n : t[i] = [part |-> "pre", index |-> i]
             /\ t[n + 1] = [part |-> "handler", index |-> 0]
             /\ chain.outcome = [k |-> event.uri]
             /\ \A i \in (n + 2)..Len(t) : t[i].part = "post"
             /\ \A i, j \in (n + 2)..Len(t) : i < j => t[i].index > t[j].index
             /\ {t[i].index : i \in (n + 2)..Len(t)} =
                  IF event.uri = "return" THEN around ELSE {}

\* Two middlewares with parts on both sides of next around a handler that
\* returns: before 1, before 2, handler, after 2, after 1.
C33_Witness ==
  /\ event.op = "execute"
  /\ chain.middlewares = <<"around", "around">>
  /\ chain.outcome = [k |-> "return"]
  /\ chain.trace = <<[part |-> "pre", index |-> 1], [part |-> "pre", index |-> 2],
                     [part |-> "handler", index |-> 0],
                     [part |-> "post", index |-> 2], [part |-> "post", index |-> 1]>>

(* --------------------------- the two tables ---------------------------- *)
\* C34: the request-handler table and the notification-handler table are
\* independent. Where request handlers are registered only for "initialize" and
\* "custom" and notification handlers only for "initialized" and "notify", a
\* Notification with method "initialize" or "custom" is dropped silently and a
\* Request with method "initialized" or "notify" is answered with -32601.
C34_TablesIndependent ==
  event.op = "handleMessage" =>
    /\ (/\ isNotification(event.msg) /\ JsonRpcNotificationSchemaOK(event.msg)
        /\ event.msg.method.v \in {"initialize", "custom"}) =>
         /\ event.handler = "none" /\ event.outcome = NoOutcome
         /\ event.pc = "done"
         /\ event.tries = <<>> /\ event.logged = <<>>
    /\ (/\ isRequest(event.msg) /\ JsonRpcRequestSchemaOK(event.msg)
        /\ event.msg.method.v \in {"initialized", "notify"}) =>
         /\ event.handler = "none" /\ event.outcome = NoOutcome
         /\ Len(event.tries) >= 1
         /\ event.tries[1].message.id = event.msg.id
         /\ "error" \in DOMAIN event.tries[1].message
         /\ event.tries[1].message.error.code = Num(-32601)

\* A Notification "custom" has just been dropped although a request handler is
\* registered for "custom", and a notification handler is registered for "notify".
C34_Witness ==
  /\ event.op = "handleMessage"
  /\ isNotification(event.msg)
  /\ event.msg.method = Str("custom")
  /\ event.handler = "none" /\ event.tries = <<>>
  /\ "custom" \in DOMAIN requestHandlers
  /\ "custom" \notin DOMAIN notificationHandlers
  /\ "notify" \in DOMAIN notificationHandlers

(* ------------------------- the fixed handshake ------------------------- *)
\* A complete initialize Request has been answered, the write accepted.
ValidInitializeAnswered ==
  /\ event.op = "settle" /\ event.kind = "request"
  /\ event.msg.method = Str("initialize")
  /\ CompleteInitializeParams(Get(event.msg, "params"))
  /\ event.tries[1].ok

\* The answer is a result with the server's protocol version, its capabilities
\* descriptor and its identity.
FixedResult ==
  /\ "result" \in DOMAIN event.tries[1].message
  /\ "t" \notin DOMAIN event.tries[1].message.result
  /\ {"protocolVersion", "capabilities", "serverInfo"}
       \subseteq DOMAIN event.tries[1].message.result
  /\ event.tries[1].message.result.protocolVersion = Str("2024-11-05")
  /\ event.tries[1].message.result.capabilities =
       [k \in DOMAIN DefaultCapabilities \cup DOMAIN Overrides |->
          IF k \in DOMAIN Overrides THEN Overrides[k] ELSE DefaultCapabilities[k]]
  /\ event.tries[1].message.result.serverInfo =
       [name |-> options.name, version |-> options.version]

\* C35, as stated: every valid initialize Request, at any point of any sequence
\* of operations and whatever the client sends, is answered with the same
\* protocolVersion, capabilities descriptor and serverInfo.
C35_AsStated == ValidInitializeAnswered => FixedResult

\* C35: as long as the handler the constructor registered for "initialize" has
\* not been replaced through onRequest, every valid initialize Request, at any
\* point of any sequence of operations and whatever protocolVersion,
\* capabilities and clientInfo the client sends, is answered with the same
\* protocolVersion, capabilities descriptor and serverInfo.
C35_FixedHandshake ==
  (ValidInitializeAnswered /\ event.handler = "handleInitialize") => FixedResult

\* The second client, with another protocol version, is answered by the
\* constructor's handler after a handler for "custom" was registered.
C35_Witness ==
  /\ ValidInitializeAnswered /\ event.handler = "handleInitialize"
  /\ Get(event.msg, "params") = OtherInitializeParams
  /\ "custom" \in DOMAIN requestHandlers
  /\ event.tries[1].message.result.protocolVersion = Str("2024-11-05")

(* ------------------------ the tool call's failures --------------------- *)
\* C36: every failure of the tool provider's callTool during a tools/call
\* Request reaches the peer as an error Response with code -32002, whatever the
\* type and code of the provider's failure, a typed InvalidParams failure
\* included; only a missing 'name' parameter yields -32602.
C36_ToolFailureCode ==
  (event.op = "settle" /\ event.handler = "handleCallTool" /\ event.tries[1].ok) =>
    /\ "failure" \in DOMAIN event.outcome =>
         /\ Len(event.tries) = 1
         /\ event.tries[1].message.id = event.msg.id
         /\ "error" \in DOMAIN event.tries[1].message
         /\ "result" \notin DOMAIN event.tries[1].message
         /\ event.tries[1].message.error.code = Num(-32002)
    /\ ("error" \in DOMAIN event.tries[1].message
        /\ event.tries[1].message.error.code = Num(-32602)) =>
         ~HasKey(Get(event.msg, "params"), "name")

\* The provider failed with a typed InvalidParams error, code -32602, and the
\* peer was sent -32002.
C36_Witness ==
  /\ event.op = "settle" /\ event.handler = "handleCallTool"
  /\ "failure" \in DOMAIN event.outcome
  /\ "code" \in DOMAIN event.outcome.failure
  /\ event.outcome.failure.code = -32602
  /\ event.tries[1].ok
  /\ event.tries[1].message.error.code = Num(-32002)

(* ------------------------- exact correlation --------------------------- *)
\* C37: response correlation compares ids exactly, their type included: an
\* inbound Response whose id is the string form of an outstanding integer id, or
\* null, matches no pending entry, settles no future and leaves the pending
\* table unchanged.
C37_ExactCorrelation ==
  (ResponseEvent /\ (event.msg.id = Null \/ IsString(event.msg.id))) =>
    /\ futures = event.futuresBefore
    /\ pendingRequests = event.pendingBefore

\* The Response with id "1" has come in while the request with id 1 was
\* outstanding, and that request is still outstanding.
C37_Witness ==
  /\ ResponseEvent
  /\ event.msg.id = Str("1")
  /\ Num(1) \in DOMAIN event.pendingBefore
  /\ Num(1) \in DOMAIN pendingRequests

\* C38: once unregisterResource(uri) or clear() has completed, a readResource(uri)
\* made while the resource is still unregistered fails with ResourceNotFound,
\* also when a readResource that was awaiting the handler at the time of the
\* unregistration completes in between.
C38_UnregisteredNotFound ==
  (event.op = "readResource" /\ event.uri \notin resources.registry)
    => event.result = ResourceNotFound(event.uri)

\* C39: after a GET invocation of the LambdaStreamingTransport's handler has
\* answered with the event stream, a message passed to send() while the
\* transport is connected (the send resolves) is written to the stream as an
\* SSE 'message' event: here for the send that follows the GET invocation at
\* once, before any timeout or close.
C39_StreamedAfterGet ==
  [][(/\ event.op = "stream"
      /\ event.kind = "lambda"
      /\ event'.op = "send"
      /\ event'.outcome = "sent")
       => transport'.written = Append(transport.written, event'.size)]_vars

====
